---- MODULE Spec2Model ----
(***************************************************************************)
(* Recommendation engine of parking-paris (src/main.py): the lot filter,   *)
(* the saturation predictor, the transit impact, the composite score and   *)
(* the recommendation cycle AssistantNavigation.recommander_parking.       *)
(*                                                                         *)
(* Units.  The source computes in floats; the model is exact in integers:  *)
(*   distances in metres, durations in whole minutes (the source's int()), *)
(*   tariffs in cents, occupancy rates in hundredths (or millionths where  *)
(*   the predictor's multipliers need them), scores in hundredths of a     *)
(*   point.  A position (latitude, longitude) is a named place of the      *)
(*   table DistanceM, which holds the haversine distance the source        *)
(*   formula gives for the coordinates written in src/main.py.             *)
(***************************************************************************)
EXTENDS Integers, Sequences, FiniteSets, TLC

VARIABLES
  pc,                    \* position in recommander_parking
  cle_maps,              \* Maps_API_KEY is configured
  source_travaux,        \* what the works feed answers during this cycle
  source_metro,          \* what the transit feed answers during this cycle
  parkings_saemes,       \* local of recommander_parking (line 1241)
  parkings_paris,        \* local of recommander_parking (line 1242)
  travaux,               \* local of recommander_parking (line 1245)
  incidents_metro,       \* local of recommander_parking (line 1248)
  stations_destination,  \* local of recommander_parking (line 1251)
  tous_parkings,         \* local of recommander_parking (line 1256)
  i,                     \* loop index of line 1276 (1-based)
  trajets,               \* the legs calculer_temps_trajet returned, per analysed lot
  recommendations,       \* local of recommander_parking (line 1274)
  resultat,              \* the returned dictionary
  args,                  \* arguments of a function applied on its own
  ret                    \* its return value

vars == << pc, cle_maps, source_travaux, source_metro, parkings_saemes, parkings_paris,
           travaux, incidents_metro, stations_destination, tous_parkings, i, trajets,
           recommendations, resultat, args, ret >>

\* Python's None is the empty tuple; a leg or a part of the result that may be
\* None is <<value>>, a dictionary that may be None is itself or None.
None == << >>

Some(v) == << v >>

Min(a, b) == IF a <= b THEN a ELSE b

Max(a, b) == IF a >= b THEN a ELSE b

(***************************************************************************)
(* Bounds of the model.                                                    *)
(***************************************************************************)
\* records of the SAEMES referential feed
MaxSaemes == 3

\* records of the municipal feed
MaxParis == 2

(***************************************************************************)
(* Program constants.                                                      *)
(***************************************************************************)
\* parkings_pertinents[:15]
MaxPertinents == 15

\* rayon_max_km: float = 3.0, in metres
RayonMaxM == 3000

(***************************************************************************)
(* Places and distances.                                                   *)
(***************************************************************************)
\* position_actuelle and destination of the source's own run (main.py 1594-1595)
Origine == "ORIG"

Destination == "DEST"

StationsPrincipales ==
  << [nom |-> "Palais Royal - Musee du Louvre", slug |-> "palais_royal", lignes |-> <<"1", "7">>],
     [nom |-> "Gare de l'Est", slug |-> "gare_de_l_est", lignes |-> <<"4", "5", "7">>],
     [nom |-> "Republique", slug |-> "republique", lignes |-> <<"3", "5", "8", "9", "11">>],
     [nom |-> "Opera", slug |-> "opera", lignes |-> <<"3", "7", "8">>],
     [nom |-> "Chaussee d'Antin - La Fayette", slug |-> "chaussee_d_antin", lignes |-> <<"7", "9">>],
     [nom |-> "Le Peletier", slug |-> "le_peletier", lignes |-> <<"7">>],
     [nom |-> "Poissonniere", slug |-> "poissoniere", lignes |-> <<"7">>],
     [nom |-> "Gare du Nord", slug |-> "gare_du_nord", lignes |-> <<"4", "5", "RER B", "RER D">>],
     [nom |-> "Louis Blanc", slug |-> "louis_blanc", lignes |-> <<"7", "7bis">>],
     [nom |-> "Riquet", slug |-> "riquet", lignes |-> <<"7">>],
     [nom |-> "Crimee", slug |-> "crimee", lignes |-> <<"7">>],
     [nom |-> "Jaures", slug |-> "jaures", lignes |-> <<"2", "5", "7bis">>],
     [nom |-> "Stalingrad", slug |-> "stalingrad", lignes |-> <<"2", "5", "7">>],
     [nom |-> "Laumiere", slug |-> "laumiere", lignes |-> <<"5">>] >>

DistanceM ==
  [
    ORIG |->
    [
      ORIG |-> 0, DEST |-> 3564, SAEM_001 |-> 398, SAEM_002 |-> 626, SAEM_003 |-> 1705,
      SAEM_009 |-> 3770, SAEM_010 |-> 4049, PARIS_1 |-> 2189, PARIS_2 |-> 2572,
      PARIS_3 |-> 1690, PARIS_4 |-> 1553, palais_royal |-> 1161, gare_de_l_est |-> 2189,
      republique |-> 1553, opera |-> 1790, chaussee_d_antin |-> 1857, le_peletier |-> 1949,
      poissoniere |-> 2013, gare_du_nord |-> 2572, louis_blanc |-> 2890, riquet |-> 3564,
      crimee |-> 4171, jaures |-> 3286, stalingrad |-> 3201, laumiere |-> 4201,
      TRAV_001 |-> 3182, TRAV_002 |-> 1082, TRAV_003 |-> 76, TRAV_PERT_1 |-> 2189,
      parc_des_princes |-> 7168, olympia |-> 1896 ],
    DEST |->
    [
      ORIG |-> 3564, DEST |-> 0, SAEM_001 |-> 3670, SAEM_002 |-> 4097, SAEM_003 |-> 2908,
      SAEM_009 |-> 548, SAEM_010 |-> 922, PARIS_1 |-> 1393, PARIS_2 |-> 1036,
      PARIS_3 |-> 4000, PARIS_4 |-> 2381, palais_royal |-> 3235, gare_de_l_est |-> 1393,
      republique |-> 2381, opera |-> 3010, chaussee_d_antin |-> 2835, le_peletier |-> 2282,
      poissoniere |-> 1726, gare_du_nord |-> 1036, louis_blanc |-> 837, riquet |-> 0,
      crimee |-> 1108, jaures |-> 917, stalingrad |-> 614, laumiere |-> 1382,
      TRAV_001 |-> 4542, TRAV_002 |-> 4463, TRAV_003 |-> 3513, TRAV_PERT_1 |-> 1393,
      parc_des_princes |-> 9594, olympia |-> 3256 ],
    SAEM_001 |->
    [
      ORIG |-> 398, DEST |-> 3670, SAEM_001 |-> 0, SAEM_002 |-> 434, SAEM_003 |-> 2075,
      SAEM_009 |-> 3820, SAEM_010 |-> 4071, PARIS_1 |-> 2277, PARIS_2 |-> 2721,
      PARIS_3 |-> 1300, PARIS_4 |-> 1471, palais_royal |-> 1551, gare_de_l_est |-> 2277,
      republique |-> 1471, opera |-> 2168, chaussee_d_antin |-> 2223, le_peletier |-> 2260,
      poissoniere |-> 2231, gare_du_nord |-> 2721, louis_blanc |-> 2940, riquet |-> 3670,
      crimee |-> 4179, jaures |-> 3294, stalingrad |-> 3252, laumiere |-> 4179,
      TRAV_001 |-> 3577, TRAV_002 |-> 1307, TRAV_003 |-> 465, TRAV_PERT_1 |-> 2277,
      parc_des_princes |-> 7453, olympia |-> 2286 ],
    SAEM_002 |->
    [
      ORIG |-> 626, DEST |-> 4097, SAEM_001 |-> 434, SAEM_002 |-> 0, SAEM_003 |-> 2303,
      SAEM_009 |-> 4254, SAEM_010 |-> 4505, PARIS_1 |-> 2706, PARIS_2 |-> 3136,
      PARIS_3 |-> 1412, PARIS_4 |-> 1898, palais_royal |-> 1731, gare_de_l_est |-> 2706,
      republique |-> 1898, opera |-> 2377, chaussee_d_antin |-> 2460, le_peletier |-> 2575,
      poissoniere |-> 2616, gare_du_nord |-> 3136, louis_blanc |-> 3374, riquet |-> 4097,
      crimee |-> 4613, jaures |-> 3727, stalingrad |-> 3685, laumiere |-> 4609,
      TRAV_001 |-> 3615, TRAV_002 |-> 1076, TRAV_003 |-> 700, TRAV_PERT_1 |-> 2706,
      parc_des_princes |-> 7207, olympia |-> 2454 ],
    SAEM_003 |->
    [
      ORIG |-> 1705, DEST |-> 2908, SAEM_001 |-> 2075, SAEM_002 |-> 2303, SAEM_003 |-> 0,
      SAEM_009 |-> 3325, SAEM_010 |-> 3693, PARIS_1 |-> 1946, PARIS_2 |-> 1921,
      PARIS_3 |-> 3246, PARIS_4 |-> 2210, palais_royal |-> 600, gare_de_l_est |-> 1946,
      republique |-> 2210, opera |-> 139, chaussee_d_antin |-> 162, le_peletier |-> 630,
      poissoniere |-> 1235, gare_du_nord |-> 1921, louis_blanc |-> 2598, riquet |-> 2908,
      crimee |-> 3862, jaures |-> 3101, stalingrad |-> 2842, laumiere |-> 4021,
      TRAV_001 |-> 1919, TRAV_002 |-> 1982, TRAV_003 |-> 1629, TRAV_PERT_1 |-> 1946,
      parc_des_princes |-> 6755, olympia |-> 398 ],
    SAEM_009 |->
    [
      ORIG |-> 3770, DEST |-> 548, SAEM_001 |-> 3820, SAEM_002 |-> 4254, SAEM_003 |-> 3325,
      SAEM_009 |-> 0, SAEM_010 |-> 385, PARIS_1 |-> 1590, PARIS_2 |-> 1405, PARIS_3 |-> 3970,
      PARIS_4 |-> 2425, palais_royal |-> 3591, gare_de_l_est |-> 1590, republique |-> 2425,
      opera |-> 3437, chaussee_d_antin |-> 3270, le_peletier |-> 2713, poissoniere |-> 2102,
      gare_du_nord |-> 1405, louis_blanc |-> 881, riquet |-> 548, crimee |-> 570,
      jaures |-> 635, stalingrad |-> 570, laumiere |-> 833, TRAV_001 |-> 5033,
      TRAV_002 |-> 4734, TRAV_003 |-> 3726, TRAV_PERT_1 |-> 1590, parc_des_princes |-> 10057,
      olympia |-> 3691 ],
    SAEM_010 |->
    [
      ORIG |-> 4049, DEST |-> 922, SAEM_001 |-> 4071, SAEM_002 |-> 4505, SAEM_003 |-> 3693,
      SAEM_009 |-> 385, SAEM_010 |-> 0, PARIS_1 |-> 1899, PARIS_2 |-> 1772, PARIS_3 |-> 4114,
      PARIS_4 |-> 2637, palais_royal |-> 3936, gare_de_l_est |-> 1899, republique |-> 2637,
      opera |-> 3807, chaussee_d_antin |-> 3641, le_peletier |-> 3086, poissoniere |-> 2463,
      gare_du_nord |-> 1772, louis_blanc |-> 1173, riquet |-> 922, crimee |-> 186,
      jaures |-> 783, stalingrad |-> 876, laumiere |-> 484, TRAV_001 |-> 5416,
      TRAV_002 |-> 5040, TRAV_003 |-> 4009, TRAV_PERT_1 |-> 1899, parc_des_princes |-> 10433,
      olympia |-> 4063 ],
    PARIS_1 |->
    [
      ORIG |-> 2189, DEST |-> 1393, SAEM_001 |-> 2277, SAEM_002 |-> 2706, SAEM_003 |-> 1946,
      SAEM_009 |-> 1590, SAEM_010 |-> 1899, PARIS_1 |-> 0, PARIS_2 |-> 566, PARIS_3 |-> 2709,
      PARIS_4 |-> 1069, palais_royal |-> 2074, gare_de_l_est |-> 0, republique |-> 1069,
      opera |-> 2077, chaussee_d_antin |-> 1942, le_peletier |-> 1436, poissoniere |-> 775,
      gare_du_nord |-> 566, louis_blanc |-> 727, riquet |-> 1393, crimee |-> 2042,
      jaures |-> 1196, stalingrad |-> 1028, laumiere |-> 2139, TRAV_001 |-> 3827,
      TRAV_002 |-> 3145, TRAV_003 |-> 2142, TRAV_PERT_1 |-> 0, parc_des_princes |-> 8680,
      olympia |-> 2341 ],
    PARIS_2 |->
    [
      ORIG |-> 2572, DEST |-> 1036, SAEM_001 |-> 2721, SAEM_002 |-> 3136, SAEM_003 |-> 1921,
      SAEM_009 |-> 1405, SAEM_010 |-> 1772, PARIS_1 |-> 566, PARIS_2 |-> 0, PARIS_3 |-> 3261,
      PARIS_4 |-> 1628, palais_royal |-> 2205, gare_de_l_est |-> 566, republique |-> 1628,
      opera |-> 2035, chaussee_d_antin |-> 1871, le_peletier |-> 1316, poissoniere |-> 700,
      gare_du_nord |-> 0, louis_blanc |-> 756, riquet |-> 1036, crimee |-> 1943,
      jaures |-> 1248, stalingrad |-> 940, laumiere |-> 2121, TRAV_001 |-> 3683,
      TRAV_002 |-> 3434, TRAV_003 |-> 2515, TRAV_PERT_1 |-> 566, parc_des_princes |-> 8664,
      olympia |-> 2292 ],
    PARIS_3 |->
    [
      ORIG |-> 1690, DEST |-> 4000, SAEM_001 |-> 1300, SAEM_002 |-> 1412, SAEM_003 |-> 3246,
      SAEM_009 |-> 3970, SAEM_010 |-> 4114, PARIS_1 |-> 2709, PARIS_2 |-> 3261,
      PARIS_3 |-> 0, PARIS_4 |-> 1642, palais_royal |-> 2793, gare_de_l_est |-> 2709,
      republique |-> 1642, opera |-> 3358, chaussee_d_antin |-> 3376, le_peletier |-> 3268,
      poissoniere |-> 3008, gare_du_nord |-> 3261, louis_blanc |-> 3171, riquet |-> 4000,
      crimee |-> 4170, jaures |-> 3352, stalingrad |-> 3451, laumiere |-> 4069,
      TRAV_001 |-> 4870, TRAV_002 |-> 2488, TRAV_003 |-> 1748, TRAV_PERT_1 |-> 2709,
      parc_des_princes |-> 8603, olympia |-> 3515 ],
    PARIS_4 |->
    [
      ORIG |-> 1553, DEST |-> 2381, SAEM_001 |-> 1471, SAEM_002 |-> 1898, SAEM_003 |-> 2210,
      SAEM_009 |-> 2425, SAEM_010 |-> 2637, PARIS_1 |-> 1069, PARIS_2 |-> 1628,
      PARIS_3 |-> 1642, PARIS_4 |-> 0, palais_royal |-> 2030, gare_de_l_est |-> 1069,
      republique |-> 0, opera |-> 2347, chaussee_d_antin |-> 2284, le_peletier |-> 1961,
      poissoniere |-> 1501, gare_du_nord |-> 1628, louis_blanc |-> 1573, riquet |-> 2381,
      crimee |-> 2731, jaures |-> 1854, stalingrad |-> 1873, laumiere |-> 2712,
      TRAV_001 |-> 4104, TRAV_002 |-> 2630, TRAV_003 |-> 1539, TRAV_PERT_1 |-> 1069,
      parc_des_princes |-> 8597, olympia |-> 2582 ] ]

\* The haversine distance between a query point and a place, in metres.
_calculer_distance(a, b) == DistanceM[a][b]

(***************************************************************************)
(* list.sort(key=...): Python's sort is stable.                            *)
(***************************************************************************)
\* s sorted by ascending cles[k], ties in the order of s.
Trier(s, cles) ==
  LET n == Len(s)
      Rang(j) == 1 + Cardinality({m \in 1..n : \/ cles[m] < cles[j]
                                               \/ cles[m] = cles[j] /\ m < j})
  IN  [k \in 1..n |-> s[CHOOSE j \in 1..n : Rang(j) = k]]

(***************************************************************************)
(* CollecteurDonnees: parking lots.                                        *)
(***************************************************************************)
\* A Parking.  lieu stands for (latitude, longitude); coord_num is FALSE when the
\* feed gave coordinates that are not numbers.
Parking(id, nom, lieu, capacite, places, tarif) ==
  [id |-> id, nom |-> nom, lieu |-> lieu, coord_num |-> TRUE,
   capacite_totale |-> capacite, places_disponibles |-> places,
   tarif_horaire |-> tarif, distance_destination |-> 0]

\* Faulty variant of the filter: the list is cut to 15 lots before it is sorted.
FiltrerTronquerAvantTri(parkings, destination, rayon_max) ==
  LET mesures == [k \in 1..Len(parkings) |->
                    [parkings[k] EXCEPT !.distance_destination =
                        _calculer_distance(parkings[k].lieu, destination)]]
      parkings_pertinents ==
        SelectSeq(mesures, LAMBDA p : p.distance_destination <= rayon_max)
      coupes == SubSeq(parkings_pertinents, 1,
                       Min(MaxPertinents, Len(parkings_pertinents)))
  IN  Trier(coupes, [k \in 1..Len(coupes) |-> coupes[k].distance_destination])

\* The lots within rayon_max of the destination, nearest first, 15 at most.
filtrer_parkings_pertinents(parkings, destination, rayon_max) ==
  LET mesures == [k \in 1..Len(parkings) |->
                    [parkings[k] EXCEPT !.distance_destination =
                        _calculer_distance(parkings[k].lieu, destination)]]
      parkings_pertinents ==
        SelectSeq(mesures, LAMBDA p : p.distance_destination <= rayon_max)
      tries == Trier(parkings_pertinents,
                     [k \in 1..Len(parkings_pertinents) |->
                        parkings_pertinents[k].distance_destination])
  IN  SubSeq(tries, 1, Min(MaxPertinents, Len(tries)))

\* lat2 - lat1 on a coordinate that is not a number raises TypeError.
FiltreLeve(parkings) == \E k \in 1..Len(parkings) : ~parkings[k].coord_num

\* The five lots of the fallback; haut picks the upper end of each
\* random.randint, the lower end otherwise.
_generer_parkings_fallback(haut) ==
  << Parking("SAEM_001", "Parking Hotel de Ville", "SAEM_001", 500,
             IF haut THEN 200 ELSE 50, 440),
     Parking("SAEM_002", "Parking Notre-Dame", "SAEM_002", 400,
             IF haut THEN 150 ELSE 30, 420),
     Parking("SAEM_003", "Parking Meyerbeer-Opera", "SAEM_003", 350,
             IF haut THEN 100 ELSE 20, 480),
     Parking("SAEM_009", "Parking Bassin de la Villette", "SAEM_009", 200,
             IF haut THEN 80 ELSE 30, 350),
     Parking("SAEM_010", "Parking Crimee", "SAEM_010", 150,
             IF haut THEN 60 ELSE 20, 320) >>

\* What the SAEMES referential and real-time feeds hold: records of the live
\* lots, in the order the feed lists them.
ReferentielSaemes ==
  << Parking("S_HOTEL_DE_VILLE", "Saemes Hotel de Ville", "SAEM_001", 500, 120, 440),
     Parking("S_VILLETTE", "Saemes Villette", "SAEM_009", 200, 45, 350),
     Parking("S_OPERA", "Saemes Opera", "SAEM_003", 350, 70, 480),
     Parking("S_CRIMEE", "Saemes Crimee", "SAEM_010", 150, 75, 320),
     Parking("S_NOTRE_DAME", "Saemes Notre-Dame", "SAEM_002", 400, 200, 420) >>

\* What the municipal feed holds.
ParcsParis ==
  << Parking("PARIS_1", "Parc Gare de l'Est", "PARIS_1", 300, 150, 350),
     Parking("PARIS_2", "Parc Gare du Nord", "PARIS_2", 450, 90, 387),
     Parking("PARIS_3", "Parc Bastille", "PARIS_3", 250, 100, 300),
     Parking("PARIS_4", "Parc Republique", "PARIS_4", 400, 280, 600) >>

\* The first n records of a feed; with malforme, the last one carries
\* coordinates that are not numbers.
Reponse(feed, n, malforme) ==
  LET m == Min(n, Len(feed))
  IN  [k \in 1..m |-> IF malforme /\ k = m
                        THEN [feed[k] EXCEPT !.coord_num = FALSE]
                        ELSE feed[k]]

\* recuperer_parkings_saemes before its filter: the live lots, or the fallback on
\* an error and when no lot was built.
ParkingsSaemes(erreur, reponse, haut) ==
  IF erreur \/ reponse = << >> THEN _generer_parkings_fallback(haut) ELSE reponse

(***************************************************************************)
(* CollecteurDonnees: transit incidents and stations.                      *)
(***************************************************************************)
\* normaliser(nom).split(): the name in lower case, "-" and "'" read as blanks,
\* cut into words.  A "/" after a letter stands for the accent the letter
\* carries: nothing in normaliser removes it.
normaliser(nom) ==
  CASE nom = "Palais Royal - Musee du Louvre" -> <<"palais", "royal", "musee", "du", "louvre">>
    [] nom = "Gare de l'Est" -> <<"gare", "de", "l", "est">>
    [] nom = "Republique" -> <<"republique">>
    [] nom = "Opera" -> <<"opera">>
    [] nom = "Chaussee d'Antin - La Fayette" -> <<"chaussee", "d", "antin", "la", "fayette">>
    [] nom = "Le Peletier" -> <<"le", "peletier">>
    [] nom = "Poissonniere" -> <<"poissonniere">>
    [] nom = "Gare du Nord" -> <<"gare", "du", "nord">>
    [] nom = "Louis Blanc" -> <<"louis", "blanc">>
    [] nom = "Riquet" -> <<"riquet">>
    [] nom = "Crimee" -> <<"crimee">>
    [] nom = "Jaures" -> <<"jaures">>
    [] nom = "Stalingrad" -> <<"stalingrad">>
    [] nom = "Laumiere" -> <<"laumiere">>
    [] nom = "La Courneuve - 8 Mai 1945" -> <<"la", "courneuve", "8", "mai", "1945">>
    [] nom = "Saint-Germain-des-Pres" -> <<"saint", "germain", "des", "pres">>
    [] nom = "Re/publique" -> <<"re/publique">>
    [] nom = "REPUBLIQUE" -> <<"republique">>
    [] nom = "Gare du Nord - Quai de la ligne 4 vers Porte de Clignancourt" ->
         <<"gare", "du", "nord", "quai", "de", "la", "ligne", "4", "vers", "porte", "de",
           "clignancourt">>
    [] nom = "Gare du Nord - Quai de la ligne 4 vers Bagneux" ->
         <<"gare", "du", "nord", "quai", "de", "la", "ligne", "4", "vers", "bagneux">>
    [] nom = "Gare du Nord - Quai de la ligne 5 direction Bobigny" ->
         <<"gare", "du", "nord", "quai", "de", "la", "ligne", "5", "direction", "bobigny">>

\* nom1_norm in nom2_norm, read on whole words.
Contient(mots2, mots1) ==
  \E d \in 0..(Len(mots2) - Len(mots1)) :
     \A k \in 1..Len(mots1) : mots2[d + k] = mots1[k]

_stations_similaires(station1, station2) ==
  LET nom1_norm == normaliser(station1)
      nom2_norm == normaliser(station2)
      mots1 == {nom1_norm[k] : k \in 1..Len(nom1_norm)}
      mots2 == {nom2_norm[k] : k \in 1..Len(nom2_norm)}
  IN  \/ nom1_norm = nom2_norm
      \/ Contient(nom2_norm, nom1_norm) \/ Contient(nom1_norm, nom2_norm)
      \/ 10 * Cardinality(mots1 \cap mots2)
           > 7 * Max(Cardinality(mots1), Cardinality(mots2))

\* An IncidentMetro; mentions holds the station names its message contains.
IncidentMetro(ligne, statut, titre, mentions, impact_niveau, stations_fermees) ==
  [ligne |-> ligne, statut |-> statut, titre |-> titre, mentions |-> mentions,
   impact_niveau |-> impact_niveau, stations_fermees |-> stations_fermees]

_generer_incidents_metro_fallback ==
  << IncidentMetro("1", "normal", "Trafic normal", {}, "normal", << >>),
     IncidentMetro("7", "alerte", "Trafic perturbe",
                   {"Riquet", "La Courneuve - 8 Mai 1945"}, "perturbe",
                   <<"Riquet", "La Courneuve - 8 Mai 1945">>),
     IncidentMetro("4", "alerte", "Trafic perturbe", {"Saint-Germain-des-Pres"},
                   "perturbe", <<"Saint-Germain-des-Pres">>),
     IncidentMetro("13", "normal", "Trafic normal", {}, "normal", << >>) >>

\* What the transit feed answers: "erreur" (the request fails), "normal" (every
\* line runs) or "perturbe" (stations closed on lines 5 and 7).
SourcesMetro == {"erreur", "normal", "perturbe"}

\* The incidents built from the answer; "vide" is an answer without any line.

recuperer_incidents_metro(source) ==
  CASE source = "erreur" -> _generer_incidents_metro_fallback
    [] source = "vide" -> << >>
    [] source = "normal" ->
         << IncidentMetro("5", "normal", "Trafic normal", {}, "normal", << >>),
            IncidentMetro("7", "normal", "Trafic normal", {}, "normal", << >>) >>
    [] source = "perturbe" ->
         << IncidentMetro("5", "alerte", "Trafic perturbe", {"Stalingrad"},
                          "perturbe", <<"Stalingrad">>),
            IncidentMetro("7", "normal_trav", "Travaux", {"Riquet", "Crimee"},
                          "travaux", <<"Riquet", "Crimee">>) >>

\* Faulty variant of the closure test: a station named in the message of an
\* incident is closed whatever the impact level of the incident.
VerifierFermetureSansNiveau(nom_station, incidents) ==
  LET Liste(k) == \E j \in 1..Len(incidents[k].stations_fermees) :
                     _stations_similaires(nom_station, incidents[k].stations_fermees[j])
      touches == {k \in 1..Len(incidents) : Liste(k) \/ nom_station \in incidents[k].mentions}
  IN  [fermee |-> touches # {}, raison |-> << >>]

\* <<closed, reason>>: the first incident that lists a similar station, or that
\* names the station in its message while its impact level is not normal.
_verifier_fermeture_station(nom_station, incidents) ==
  LET Liste(k) == \E j \in 1..Len(incidents[k].stations_fermees) :
                     _stations_similaires(nom_station, incidents[k].stations_fermees[j])
      Message(k) == /\ nom_station \in incidents[k].mentions
                    /\ incidents[k].impact_niveau # "normal"
      touches == {k \in 1..Len(incidents) : Liste(k) \/ Message(k)}
  IN  IF touches = {}
        THEN [fermee |-> FALSE, raison |-> << >>]
        ELSE LET k == CHOOSE m \in touches : \A o \in touches : m <= o
             IN  [fermee |-> TRUE,
                  raison |-> << IF Liste(k) THEN "Fermee" ELSE "Perturbee",
                                incidents[k].ligne, incidents[k].titre >>]

\* The stations of the base within rayon of the point, nearest first, each with
\* its closure according to the incidents fetched for this call.
recuperer_stations_metro_proches(lieu, rayon, source) ==
  LET incidents == recuperer_incidents_metro(source)
      StationMetro(station) ==
        LET etat == _verifier_fermeture_station(station.nom, incidents)
        IN  [nom |-> station.nom, slug |-> station.slug, lignes |-> station.lignes,
             fermee |-> etat.fermee, raison_fermeture |-> etat.raison,
             distance_point |-> _calculer_distance(lieu, station.slug)]
      proches == SelectSeq(StationsPrincipales,
                           LAMBDA s : _calculer_distance(lieu, s.slug) <= rayon)
      stations_proches == [k \in 1..Len(proches) |-> StationMetro(proches[k])]
  IN  Trier(stations_proches,
            [k \in 1..Len(stations_proches) |-> stations_proches[k].distance_point])

(***************************************************************************)
(* CollecteurDonnees: road works.                                          *)
(***************************************************************************)
Travaux(id, nom, lieu, niveau_perturbation) ==
  [id |-> id, nom |-> nom, lieu |-> lieu, niveau_perturbation |-> niveau_perturbation,
   statut |-> "En cours", impact_circulation |-> TRUE]

_generer_travaux_fallback ==
  << Travaux("TRAV_001", "Renovation Avenue des Champs-Elysees", "TRAV_001",
             "Tres perturbant"),
     Travaux("TRAV_002", "Reparation Boulevard Saint-Germain", "TRAV_002", "Perturbant"),
     Travaux("TRAV_003", "Travaux Rue de Rivoli", "TRAV_003", "Perturbant") >>

\* What the works feed answers: "erreur" (the request fails), "vide" (no record)
\* or "chantier" (one work of level 1, at the Gare de l'Est).
SourcesTravaux == {"erreur", "vide", "chantier"}

recuperer_travaux_paris(source) ==
  CASE source = "erreur" -> _generer_travaux_fallback
    [] source = "vide" -> << >>
    [] source = "chantier" ->
         << Travaux("TRAV_PERT_1", "Travaux de voirie", "TRAV_PERT_1", "Tres perturbant") >>

(***************************************************************************)
(* AssistantNavigation: legs and works.                                    *)
(***************************************************************************)
\* Faulty variant of the works impact: the sum is returned without its ceiling.
ImpactTravauxSansPlafond(origine, destination, liste_travaux) ==
  LET Impact(travail) ==
        IF /\ travail.impact_circulation
           /\ Min(_calculer_distance(origine, travail.lieu),
                  _calculer_distance(destination, travail.lieu)) < 1000
          THEN IF travail.niveau_perturbation = "Tres perturbant" THEN 30 ELSE 15
          ELSE 0
      Somme[k \in 0..Len(liste_travaux)] ==
        IF k = 0 THEN 0 ELSE Somme[k - 1] + Impact(liste_travaux[k])
  IN  Somme[Len(liste_travaux)]

\* 0.30 per "Tres perturbant" work, 0.15 per other work, for the works that affect
\* circulation less than 1 km from an end of the leg; capped; in hundredths.
_calculer_impact_travaux_sur_trajet(origine, destination, liste_travaux) ==
  LET Impact(travail) ==
        IF /\ travail.impact_circulation
           /\ Min(_calculer_distance(origine, travail.lieu),
                  _calculer_distance(destination, travail.lieu)) < 1000
          THEN IF travail.niveau_perturbation = "Tres perturbant" THEN 30 ELSE 15
          ELSE 0
      Somme[k \in 0..Len(liste_travaux)] ==
        IF k = 0 THEN 0 ELSE Somme[k - 1] + Impact(liste_travaux[k])
  IN  Min(Somme[Len(liste_travaux)], 80)

\* What the routing provider answers for a leg when it answers "OK": one route,
\* with its durations in seconds and its decoded points.
RouteFournisseur(origine, destination, mode) ==
  IF mode = "driving"
    THEN [duration |-> (_calculer_distance(origine, destination) * 18) \div 100,
          duration_in_traffic |-> (_calculer_distance(origine, destination) * 27) \div 100,
          points |-> << origine, "SAEM_001", "PARIS_4", "PARIS_1", "PARIS_1",
                        destination >>]
    ELSE [duration |-> (_calculer_distance(origine, destination) * 72) \div 100,
          points |-> << origine, destination >>]

\* Faulty variant of a leg: without a key the two ends of the leg are given as
\* its route.
TrajetAvecExtremites(origine, destination, mode, with_traffic, eviter_travaux, cle, statut, trafic, source) ==
  IF ~cle
    THEN LET distance == _calculer_distance(origine, destination)
         IN  IF mode = "driving"
               THEN LET impact_travaux ==
                          IF eviter_travaux
                            THEN _calculer_impact_travaux_sur_trajet(
                                   origine, destination, recuperer_travaux_paris(source))
                            ELSE 0
                        temps_base == distance * 3 * (100 + impact_travaux)
                    IN  Some([duration |-> temps_base \div 100000,
                              duration_in_traffic |-> (temps_base * trafic) \div 1000000,
                              route_points |-> << origine, destination >>])
               ELSE IF mode = "walking"
                 THEN Some([duration |-> (distance * 12) \div 1000,
                            duration_in_traffic |-> (distance * 12) \div 1000,
                            route_points |-> << origine, destination >>])
                 ELSE None
    ELSE IF statut = "OK"
      THEN LET route == RouteFournisseur(origine, destination, mode)
               duration == route.duration \div 60
           IN  Some([duration |-> duration,
                     duration_in_traffic |->
                       IF with_traffic /\ mode = "driving"
                            /\ "duration_in_traffic" \in DOMAIN route
                         THEN route.duration_in_traffic \div 60
                         ELSE duration,
                     route_points |-> route.points])
      ELSE None

\* The leg, or None.  Without a key: 20 km/h (driving, slowed by the works and by
\* a traffic draw of trafic tenths) or 5 km/h (walking) over the distance.  With a
\* key: the provider's route, None when statut is not "OK".
calculer_temps_trajet(origine, destination, mode, with_traffic, eviter_travaux, cle, statut, trafic, source) ==
  IF ~cle
    THEN LET distance == _calculer_distance(origine, destination)
         IN  IF mode = "driving"
               THEN LET impact_travaux ==
                          IF eviter_travaux
                            THEN _calculer_impact_travaux_sur_trajet(
                                   origine, destination, recuperer_travaux_paris(source))
                            ELSE 0
                        \* temps_base, in 1/100000 minute
                        temps_base == distance * 3 * (100 + impact_travaux)
                    IN  Some([duration |-> temps_base \div 100000,
                              duration_in_traffic |-> (temps_base * trafic) \div 1000000,
                              route_points |-> << >>])
               ELSE IF mode = "walking"
                 THEN Some([duration |-> (distance * 12) \div 1000,
                            duration_in_traffic |-> (distance * 12) \div 1000,
                            route_points |-> << >>])
                 ELSE None
    ELSE IF statut = "OK"
      THEN LET route == RouteFournisseur(origine, destination, mode)
               duration == route.duration \div 60
           IN  Some([duration |-> duration,
                     duration_in_traffic |->
                       IF with_traffic /\ mode = "driving"
                            /\ "duration_in_traffic" \in DOMAIN route
                         THEN route.duration_in_traffic \div 60
                         ELSE duration,
                     route_points |-> route.points])
      ELSE None

\* Faulty variant of the works on a route: every point of the route is looked at.
IdentifierSurTousLesPoints(route_points, liste_travaux) ==
  SelectSeq(liste_travaux,
            LAMBDA travail :
              /\ travail.impact_circulation
              /\ \E k \in 1..Len(route_points) :
                    _calculer_distance(route_points[k], travail.lieu) < 300)

\* The works that affect circulation and lie less than 300 m from a sampled point
\* (every fifth point) of the route, in the order of the works.
_identifier_travaux_sur_trajet(route_points, liste_travaux) ==
  LET echantillon == {k \in 1..Len(route_points) : (k - 1) % 5 = 0}
  IN  SelectSeq(liste_travaux,
                LAMBDA travail :
                  /\ travail.impact_circulation
                  /\ \E k \in echantillon :
                        _calculer_distance(route_points[k], travail.lieu) < 300)

(***************************************************************************)
(* PredicteurSaturation.                                                   *)
(***************************************************************************)
\* recuperer_evenements_locaux: the two events, kept whatever the date (each is
\* dated with the date asked for); coefficient_impact in fifths.
recuperer_evenements_locaux ==
  << [nom |-> "Match PSG au Parc des Princes", lieu |-> "parc_des_princes",
      rayon |-> 2000, coefficient_impact |-> 9],
     [nom |-> "Concert a l'Olympia", lieu |-> "olympia",
      rayon |-> 1000, coefficient_impact |-> 7] >>

\* The denominator of a predicted rate: hundredths (the base) times twentieths
\* (weather) times twentieths (transit) times fifths twice (the two events).
Unite == 100 * 20 * 20 * 5 * 5

\* Faulty variant of the clamp: no upper limit.
BornerSansPlafond(prediction_ajustee) == Max(prediction_ajustee, 0)

\* min(max(prediction_ajustee, 0), 1), on a rate in 1/Unite
Borner(prediction_ajustee) == Min(Max(prediction_ajustee, 0), Unite)

\* The predicted occupancy, in 1/Unite.  prediction_base is the mean of the similar
\* history samples, in hundredths (50 when there is none); meteo is the weather
\* multiplier in twentieths: 20 (no usable weather data), 18 (0.9) or 21 (1.05);
\* nb_fermees is the number of closed stations among the nearby ones;
\* coefficients holds, for each of the two events, its coefficient in fifths when
\* the lot is in its zone and 5 (times 1) when it is not.
PredictionAjustee(prediction_base, meteo, nb_fermees, coefficients) ==
  LET facteur_metro == 20 + nb_fermees * 3
  IN  Borner(prediction_base * meteo * facteur_metro
               * coefficients[1] * coefficients[2])

\* Faulty variant of the statistics: a base of 0.5 without any spread.
StatistiquesSansEcart(donnees_similaires) == [prediction_base |-> 50, ecart_type |-> 0]

\* np.mean and np.std of the history samples that match the target weekday and
\* hour window, in hundredths rounded down, or 0.5 and 0.2 when none matches.
StatistiquesHistorique(donnees_similaires) ==
  IF donnees_similaires # << >>
    THEN LET n == Len(donnees_similaires)
             Somme[k \in 0..n] == IF k = 0 THEN 0 ELSE Somme[k - 1] + donnees_similaires[k]
             moyenne == Somme[n] \div n
             Carres[k \in 0..n] ==
               IF k = 0 THEN 0
               ELSE Carres[k - 1] + (donnees_similaires[k] - moyenne)
                                      * (donnees_similaires[k] - moyenne)
             variance == Carres[n] \div n
         IN  [prediction_base |-> moyenne,
              ecart_type |-> CHOOSE r \in 0..200 : r * r <= variance /\ variance < (r + 1) * (r + 1)]
    ELSE [prediction_base |-> 50, ecart_type |-> 20]

\* A time-to-saturation label: its text and, for an estimate, its number.
Libelle(texte, nombre) == [texte |-> texte, nombre |-> nombre]

\* Faulty variant of the label: the estimate is made as soon as the prediction is
\* above 0.5.
TempsDesLaMoitie(prediction_ajustee, taux_actuel) ==
  IF prediction_ajustee > 50 * (Unite \div 100) /\ taux_actuel < 95 * (Unite \div 100)
    THEN IF prediction_ajustee - taux_actuel > 60 * (Unite \div 1000)
           THEN LET temps_en_minutes ==
                      ((95 * (Unite \div 100) - taux_actuel) * 60)
                        \div (prediction_ajustee - taux_actuel)
                IN  IF temps_en_minutes < 60
                      THEN Libelle("~min", temps_en_minutes)
                      ELSE Libelle("~heure(s)", temps_en_minutes \div 60)
           ELSE Libelle("Faible risque immediat", 0)
  ELSE IF prediction_ajustee >= 99 * (Unite \div 100)
    THEN Libelle("Deja sature ou tres proche", 0)
  ELSE Libelle("N/A", 0)

\* Faulty variant of the label: a prediction of 0.99 or more is "already
\* saturated" whatever the current occupancy.
TempsSatureEnPremier(prediction_ajustee, taux_actuel) ==
  IF prediction_ajustee >= 99 * (Unite \div 100)
    THEN Libelle("Deja sature ou tres proche", 0)
  ELSE IF prediction_ajustee > 95 * (Unite \div 100) /\ taux_actuel < 95 * (Unite \div 100)
    THEN IF prediction_ajustee - taux_actuel > 60 * (Unite \div 1000)
           THEN Libelle("~min", ((95 * (Unite \div 100) - taux_actuel) * 60)
                                  \div (prediction_ajustee - taux_actuel))
           ELSE Libelle("Faible risque immediat", 0)
  ELSE IF prediction_ajustee <= 50 * (Unite \div 100)
    THEN Libelle("Tres faible risque", 0)
  ELSE Libelle("N/A", 0)

\* The label, from the prediction and the current occupancy in 1/Unite.  The
\* fill rate (prediction - current) / 60 is above 0.001 when the difference is
\* above 0.06; the minutes are (0.95 - current) / rate, cut to a whole number
\* (the quotient is exact here: in floating point it can fall just below a whole
\* number and be cut one lower).
TempsAvantSaturation(prediction_ajustee, taux_actuel) ==
  IF prediction_ajustee > 95 * (Unite \div 100) /\ taux_actuel < 95 * (Unite \div 100)
    THEN IF prediction_ajustee - taux_actuel > 60 * (Unite \div 1000)
           THEN LET temps_en_minutes ==
                      ((95 * (Unite \div 100) - taux_actuel) * 60)
                        \div (prediction_ajustee - taux_actuel)
                IN  IF temps_en_minutes < 60
                      THEN Libelle("~min", temps_en_minutes)
                      ELSE Libelle("~heure(s)", temps_en_minutes \div 60)
           ELSE Libelle("Faible risque immediat", 0)
  ELSE IF prediction_ajustee >= 99 * (Unite \div 100)
    THEN Libelle("Deja sature ou tres proche", 0)
  ELSE IF prediction_ajustee <= 50 * (Unite \div 100)
    THEN Libelle("Tres faible risque", 0)
  ELSE Libelle("N/A", 0)

\* The prediction of a lot, from the statistics of its history; a lot without
\* capacity raises ZeroDivisionError at the current occupancy.  Occupancies are
\* in 1/Unite, the reliability in hundredths.
predire_saturation(parking, prediction_base, ecart_type, meteo, stations_proches, evenements) ==
  LET stations_fermees == SelectSeq(stations_proches, LAMBDA s : s.fermee)
      coefficients ==
        [k \in 1..Len(evenements) |->
           IF _calculer_distance(parking.lieu, evenements[k].lieu) <= evenements[k].rayon
             THEN evenements[k].coefficient_impact
             ELSE 5]
      prediction_ajustee ==
        PredictionAjustee(prediction_base, meteo, Len(stations_fermees), coefficients)
      taux_actuel == Unite - (parking.places_disponibles * Unite) \div parking.capacite_totale
  IN  IF parking.capacite_totale = 0
        THEN [leve |-> "ZeroDivisionError"]
        ELSE [parking_id |-> parking.id,
              taux_occupation_actuel |-> taux_actuel,
              taux_occupation_predit |-> prediction_ajustee,
              fiabilite_prediction |-> 100 - ecart_type,
              temps_avant_saturation |-> TempsAvantSaturation(prediction_ajustee, taux_actuel)]

(***************************************************************************)
(* AssistantNavigation: transit impact and composite score.                *)
(***************************************************************************)
\* Faulty variant of the transit impact: the lot's closed stations decide the
\* text first.
ImpactMetroAttentionEnPremier(stations_parking, stations_dest) ==
  LET Fermee(s) == [nom |-> s.nom, lignes |-> s.lignes, raison |-> s.raison_fermeture]
      fermees_parking == SelectSeq(stations_parking, LAMBDA s : s.fermee)
      fermees_destination == SelectSeq(stations_dest, LAMBDA s : s.fermee)
  IN  [score_penalite |-> 5 * Len(fermees_parking) - 10 * Len(fermees_destination),
       stations_fermees_parking |->
         [k \in 1..Len(fermees_parking) |-> Fermee(fermees_parking[k])],
       stations_fermees_destination |->
         [k \in 1..Len(fermees_destination) |-> Fermee(fermees_destination[k])],
       recommandation |->
         IF fermees_parking # << >>
           THEN << "Attention", Len(fermees_parking) >>
           ELSE IF fermees_destination # << >>
             THEN << "Parking avantageux", Len(fermees_destination) >>
             ELSE << "Metro normal, pas d'impact particulier" >>]

\* Faulty variant of the transit impact: the destination's closed stations count
\* only for a lot that has no closed station of its own.
ImpactMetroBonusConditionnel(stations_parking, stations_dest) ==
  LET Fermee(s) == [nom |-> s.nom, lignes |-> s.lignes, raison |-> s.raison_fermeture]
      fermees_parking == SelectSeq(stations_parking, LAMBDA s : s.fermee)
      fermees_destination == SelectSeq(stations_dest, LAMBDA s : s.fermee)
  IN  [score_penalite |-> IF fermees_parking # << >>
                            THEN 5 * Len(fermees_parking)
                            ELSE - 10 * Len(fermees_destination),
       stations_fermees_parking |->
         [k \in 1..Len(fermees_parking) |-> Fermee(fermees_parking[k])],
       stations_fermees_destination |->
         [k \in 1..Len(fermees_destination) |-> Fermee(fermees_destination[k])],
       recommandation |->
         IF fermees_destination # << >>
           THEN << "Parking avantageux", Len(fermees_destination) >>
           ELSE IF fermees_parking # << >>
             THEN << "Attention", Len(fermees_parking) >>
             ELSE << "Metro normal, pas d'impact particulier" >>]

_calculer_impact_metro(stations_parking, stations_dest) ==
  LET Fermee(s) == [nom |-> s.nom, lignes |-> s.lignes, raison |-> s.raison_fermeture]
      fermees_parking == SelectSeq(stations_parking, LAMBDA s : s.fermee)
      fermees_destination == SelectSeq(stations_dest, LAMBDA s : s.fermee)
  IN  [score_penalite |-> 5 * Len(fermees_parking) - 10 * Len(fermees_destination),
       stations_fermees_parking |->
         [k \in 1..Len(fermees_parking) |-> Fermee(fermees_parking[k])],
       stations_fermees_destination |->
         [k \in 1..Len(fermees_destination) |-> Fermee(fermees_destination[k])],
       recommandation |->
         IF fermees_destination # << >>
           THEN << "Parking avantageux", Len(fermees_destination) >>
           ELSE IF fermees_parking # << >>
             THEN << "Attention", Len(fermees_parking) >>
             ELSE << "Metro normal, pas d'impact particulier" >>]

\* Faulty variant of the score: the availability bonus grows with the saturation.
ScoreBonusCroissant(taux_saturation, temps_acces, temps_marche, tarif, nb_travaux, impact_metro, distance_destination) ==
  LET impact_metro_score ==
        IF DOMAIN impact_metro # {}
          THEN IF "score_penalite" \in DOMAIN impact_metro
                 THEN impact_metro.score_penalite * 100
                 ELSE 0
          ELSE 0
      bonus_disponibilite ==
        IF taux_saturation > 80 THEN 0 ELSE taux_saturation * 20
  IN  taux_saturation * taux_saturation + (temps_acces + temps_marche) * 50 + tarif * 2
        + nb_travaux * 1500 + distance_destination + impact_metro_score
        - bonus_disponibilite

\* Faulty variant of the score: no availability bonus from 0.8 on.
ScoreSeuilInclus(taux_saturation, temps_acces, temps_marche, tarif, nb_travaux, impact_metro, distance_destination) ==
  LET impact_metro_score ==
        IF DOMAIN impact_metro # {}
          THEN IF "score_penalite" \in DOMAIN impact_metro
                 THEN impact_metro.score_penalite * 100
                 ELSE 0
          ELSE 0
      bonus_disponibilite ==
        IF taux_saturation >= 80 THEN 0 ELSE (100 - taux_saturation) * 20
  IN  taux_saturation * taux_saturation + (temps_acces + temps_marche) * 50 + tarif * 2
        + nb_travaux * 1500 + distance_destination + impact_metro_score
        - bonus_disponibilite

\* The score in hundredths of a point; taux_saturation in hundredths, the times in
\* minutes, tarif in cents, distance_destination in metres; impact_metro is a
\* dictionary, or None.
calculer_score_parking(taux_saturation, temps_acces, temps_marche, tarif, nb_travaux, impact_metro, distance_destination) ==
  LET penalite_saturation == taux_saturation * taux_saturation
      penalite_temps == (temps_acces + temps_marche) * 50
      penalite_tarif == tarif * 2
      penalite_travaux == nb_travaux * 1500
      penalite_distance == distance_destination
      impact_metro_score ==
        IF DOMAIN impact_metro # {}
          THEN IF "score_penalite" \in DOMAIN impact_metro
                 THEN impact_metro.score_penalite * 100
                 ELSE 0
          ELSE 0
      bonus_disponibilite ==
        IF taux_saturation > 80 THEN 0 ELSE (100 - taux_saturation) * 20
  IN  penalite_saturation + penalite_temps + penalite_tarif + penalite_travaux
        + penalite_distance + impact_metro_score - bonus_disponibilite

(***************************************************************************)
(* AssistantNavigation.recommander_parking, step by step.                  *)
(***************************************************************************)
\* The statuses of the routing provider's answer.
StatutsFournisseur == {"OK", "ZERO_RESULTS"}

\* What a leg's computation draws: with a key the provider's status, without one
\* the traffic factor (the walking leg draws none).
TiragesAcces ==
  IF cle_maps
    THEN {[statut |-> s, trafic |-> 10] : s \in StatutsFournisseur}
    ELSE {[statut |-> "OK", trafic |-> t] : t \in {12, 17}}

TiragesMarche == IF cle_maps THEN StatutsFournisseur ELSE {"OK"}

\* The means of the similar history samples, in hundredths.
BasesHistorique == {40, 80}

\* The spread of the similar samples of a history, in hundredths: the draw of a
\* sample adds a uniform value of -0.1..0.1 to a uniform base.
EcartTypeHistorique == 10

\* A rate in 1/Unite, in hundredths. The cycle draws no weather multiplier (the
\* weather request has no credentials), and its rates are whole hundredths.
Centiemes(taux) == taux \div (Unite \div 100)

\* lines 1260-1270 and 1361-1371
AucuneRecommandation ==
  [parking_recommande |-> None,
   temps_estime |-> None,
   saturation |-> None,
   route_to_parking_points |-> << >>,
   route_parking_to_dest_points |-> << >>,
   travaux_sur_trajet |-> << >>,
   incidents_metro |-> incidents_metro,
   stations_destination |-> stations_destination,
   alternatives |-> << >>]

\* Faulty variant of the slice: recommendations[0:3].
AlternativesDepuisLePremier(recos) == SubSeq(recos, 1, Min(3, Len(recos)))

\* recommendations[1:4]
Alternatives(recos) == SubSeq(recos, 2, Min(4, Len(recos)))

\* lines 1409-1418
Alternative(alt) ==
  [nom |-> alt.parking.nom,
   temps_total |-> alt.temps_total,
   saturation_predite |-> alt.prediction_saturation.taux_occupation_predit,
   temps_acces |-> alt.temps_acces,
   temps_marche_destination |-> alt.temps_marche_destination,
   nb_travaux_impactants |-> Len(alt.travaux_impactants),
   impact_metro |-> alt.impact_metro]

\* lines 1373-1421
Recommandation(recos) ==
  LET meilleure_reco == recos[1]
      alternatives == Alternatives(recos)
  IN  [parking_recommande |->
         Some([id |-> meilleure_reco.parking.id,
               nom |-> meilleure_reco.parking.nom,
               lieu |-> meilleure_reco.parking.lieu,
               places_disponibles |-> meilleure_reco.parking.places_disponibles,
               capacite_totale |-> meilleure_reco.parking.capacite_totale,
               tarif_horaire |-> meilleure_reco.parking.tarif_horaire]),
       temps_estime |->
         Some([acces_parking |-> meilleure_reco.temps_acces,
               marche_destination |-> meilleure_reco.temps_marche_destination,
               total |-> meilleure_reco.temps_total]),
       saturation |->
         Some([predite |-> meilleure_reco.prediction_saturation.taux_occupation_predit]),
       route_to_parking_points |-> meilleure_reco.route_to_parking_points,
       route_parking_to_dest_points |-> meilleure_reco.route_parking_to_dest_points,
       travaux_sur_trajet |-> meilleure_reco.travaux_impactants,
       travaux_tous |-> travaux,
       incidents_metro |-> incidents_metro,
       stations_destination |-> stations_destination,
       stations_parking |-> meilleure_reco.stations_proches,
       impact_metro |-> meilleure_reco.impact_metro,
       alternatives |-> [k \in 1..Len(alternatives) |-> Alternative(alternatives[k])]]

\* Faulty variant of the skip: `break`, the loop ends.
Interrompre(indice, nombre) == nombre + 1

\* `continue`: the next lot of the loop
Continue(indice, nombre) == indice + 1

\* Faulty variant of the ranking: the list is left in the order of analysis.
SansTri(recos) == recos

\* recommendations.sort(key=lambda x: x['score'])
TrierParScore(recos) == Trier(recos, [k \in 1..Len(recos) |-> recos[k].score])

Init ==
  /\ pc = "saemes"
  /\ cle_maps \in BOOLEAN
  /\ source_travaux \in SourcesTravaux
  /\ source_metro \in SourcesMetro
  /\ parkings_saemes = << >>
  /\ parkings_paris = << >>
  /\ travaux = << >>
  /\ incidents_metro = << >>
  /\ stations_destination = << >>
  /\ tous_parkings = << >>
  /\ i = 0
  /\ trajets = << >>
  /\ recommendations = << >>
  /\ resultat = << >>
  /\ args = << >>
  /\ ret = << >>

\* line 1241: recuperer_parkings_saemes(destination_finale)
RecupererParkingsSaemes ==
  /\ pc = "saemes"
  /\ \E erreur \in BOOLEAN, n \in 0..MaxSaemes, malforme \in BOOLEAN, haut \in BOOLEAN :
       LET parkings == ParkingsSaemes(erreur, Reponse(ReferentielSaemes, n, malforme), haut)
       IN  IF FiltreLeve(parkings)
             THEN pc' = "exception" /\ UNCHANGED parkings_saemes
             ELSE /\ pc' = "paris"
                  /\ parkings_saemes' =
                       filtrer_parkings_pertinents(parkings, Destination, RayonMaxM)
  /\ UNCHANGED << cle_maps, source_travaux, source_metro, parkings_paris, travaux,
                  incidents_metro, stations_destination, tous_parkings, i, trajets,
                  recommendations, resultat, args, ret >>

\* line 1242: recuperer_parkings_paris(destination_finale); an error leaves the
\* lots built before it
RecupererParkingsParis ==
  /\ pc = "paris"
  /\ \E n \in 0..MaxParis, malforme \in BOOLEAN :
       LET parkings == Reponse(ParcsParis, n, malforme)
       IN  IF parkings # << >> /\ FiltreLeve(parkings)
             THEN pc' = "exception" /\ UNCHANGED parkings_paris
             ELSE /\ pc' = "contexte"
                  /\ parkings_paris' =
                       IF parkings # << >>
                         THEN filtrer_parkings_pertinents(parkings, Destination, RayonMaxM)
                         ELSE parkings
  /\ UNCHANGED << cle_maps, source_travaux, source_metro, parkings_saemes, travaux,
                  incidents_metro, stations_destination, tous_parkings, i, trajets,
                  recommendations, resultat, args, ret >>

\* lines 1244-1256: the works, the incidents, the stations of the destination,
\* the two lists joined
RecupererContexte ==
  /\ pc = "contexte"
  /\ travaux' = recuperer_travaux_paris(source_travaux)
  /\ incidents_metro' = recuperer_incidents_metro(source_metro)
  /\ stations_destination' =
       recuperer_stations_metro_proches(Destination, 800, source_metro)
  /\ tous_parkings' = parkings_saemes \o parkings_paris
  /\ i' = 1
  /\ pc' = "analyse"
  /\ UNCHANGED << cle_maps, source_travaux, source_metro, parkings_saemes,
                  parkings_paris, trajets, recommendations, resultat, args, ret >>

\* lines 1258-1270: no lot at all
AucunParking ==
  /\ pc = "analyse"
  /\ tous_parkings = << >>
  /\ resultat' = AucuneRecommandation
  /\ pc' = "retour"
  /\ UNCHANGED << cle_maps, source_travaux, source_metro, parkings_saemes,
                  parkings_paris, travaux, incidents_metro, stations_destination,
                  tous_parkings, i, trajets, recommendations, args, ret >>

\* lines 1280-1286
TrajetAcces(parking, statut, trafic) ==
  calculer_temps_trajet(Origine, parking.lieu, "driving", TRUE, TRUE,
                        cle_maps, statut, trafic, source_travaux)

\* lines 1299-1305
TrajetMarche(parking, statut) ==
  calculer_temps_trajet(parking.lieu, Destination, "walking", FALSE, FALSE,
                        cle_maps, statut, 10, source_travaux)

\* lines 1276-1290: no driving leg, the lot is skipped
AnalyserSansAcces ==
  /\ pc = "analyse"
  /\ i <= Len(tous_parkings)
  /\ \E acces \in TiragesAcces :
       /\ TrajetAcces(tous_parkings[i], acces.statut, acces.trafic) = None
       /\ trajets' = Append(trajets, [id |-> tous_parkings[i].id,
                                      acces |-> None, marche |-> None])
  /\ i' = Continue(i, Len(tous_parkings))
  /\ UNCHANGED << pc, cle_maps, source_travaux, source_metro, parkings_saemes,
                  parkings_paris, travaux, incidents_metro, stations_destination,
                  tous_parkings, recommendations, resultat, args, ret >>

\* lines 1276-1309: a driving leg, a prediction, no walking leg: the lot is skipped
AnalyserSansMarche ==
  /\ pc = "analyse"
  /\ i <= Len(tous_parkings)
  /\ \E acces \in TiragesAcces, statut_marche \in TiragesMarche :
       LET temps_acces_data == TrajetAcces(tous_parkings[i], acces.statut, acces.trafic)
       IN  /\ temps_acces_data # None
           /\ TrajetMarche(tous_parkings[i], statut_marche) = None
           /\ trajets' = Append(trajets, [id |-> tous_parkings[i].id,
                                          acces |-> temps_acces_data, marche |-> None])
  /\ i' = Continue(i, Len(tous_parkings))
  /\ UNCHANGED << pc, cle_maps, source_travaux, source_metro, parkings_saemes,
                  parkings_paris, travaux, incidents_metro, stations_destination,
                  tous_parkings, recommendations, resultat, args, ret >>


\* lines 1311-1351: the entry appended for a lot that has its two legs
Analyse(parking, temps_acces_data, prediction, temps_marche_data) ==
  LET temps_jusqu_parking == temps_acces_data.duration_in_traffic
      route_to_parking_points == temps_acces_data.route_points
      temps_marche == temps_marche_data.duration
      travaux_impactants == _identifier_travaux_sur_trajet(route_to_parking_points, travaux)
      stations_parking == recuperer_stations_metro_proches(parking.lieu, 500, source_metro)
      impact_metro == _calculer_impact_metro(stations_parking, stations_destination)
      score == calculer_score_parking(Centiemes(prediction.taux_occupation_predit),
                                      temps_jusqu_parking, temps_marche,
                                      parking.tarif_horaire, Len(travaux_impactants),
                                      impact_metro, parking.distance_destination)
  IN  [parking |-> parking,
       temps_acces |-> temps_jusqu_parking,
       temps_marche_destination |-> temps_marche,
       temps_total |-> temps_jusqu_parking + temps_marche,
       prediction_saturation |-> prediction,
       score |-> score,
       disponible |-> Centiemes(prediction.taux_occupation_predit) < 95,
       route_to_parking_points |-> route_to_parking_points,
       route_parking_to_dest_points |-> temps_marche_data.route_points,
       travaux_impactants |-> travaux_impactants,
       stations_proches |-> stations_parking,
       impact_metro |-> impact_metro]

\* lines 1276-1351: the two legs and the prediction, the lot is scored
AnalyserEtNoter ==
  /\ pc = "analyse"
  /\ i <= Len(tous_parkings)
  /\ \E acces \in TiragesAcces, prediction_base \in BasesHistorique,
        statut_marche \in TiragesMarche :
       LET parking == tous_parkings[i]
           temps_acces_data == TrajetAcces(parking, acces.statut, acces.trafic)
           prediction ==
             predire_saturation(parking, prediction_base, EcartTypeHistorique, 20,
                                recuperer_stations_metro_proches(parking.lieu, 800,
                                                                 source_metro),
                                recuperer_evenements_locaux)
           temps_marche_data == TrajetMarche(parking, statut_marche)
       IN  /\ temps_acces_data # None
           /\ temps_marche_data # None
           /\ trajets' = Append(trajets, [id |-> parking.id, acces |-> temps_acces_data,
                                          marche |-> temps_marche_data])
           /\ recommendations' =
                Append(recommendations,
                       Analyse(parking, temps_acces_data[1], prediction,
                               temps_marche_data[1]))
  /\ i' = Continue(i, Len(tous_parkings))
  /\ UNCHANGED << pc, cle_maps, source_travaux, source_metro, parkings_saemes,
                  parkings_paris, travaux, incidents_metro, stations_destination,
                  tous_parkings, resultat, args, ret >>

\* lines 1353-1421: the ranking and the result
Classer ==
  /\ pc = "analyse"
  /\ tous_parkings # << >>
  /\ i > Len(tous_parkings)
  /\ recommendations' = TrierParScore(recommendations)
  /\ resultat' = IF recommendations = << >>
                   THEN AucuneRecommandation
                   ELSE Recommandation(TrierParScore(recommendations))
  /\ pc' = "retour"
  /\ UNCHANGED << cle_maps, source_travaux, source_metro, parkings_saemes,
                  parkings_paris, travaux, incidents_metro, stations_destination,
                  tous_parkings, i, trajets, args, ret >>

Next ==
  \/ RecupererParkingsSaemes
  \/ RecupererParkingsParis
  \/ RecupererContexte
  \/ AucunParking
  \/ AnalyserSansAcces
  \/ AnalyserSansMarche
  \/ AnalyserEtNoter
  \/ Classer

Spec == Init /\ [][Next]_vars


(***************************************************************************)
(* Properties of the recommendation cycle.                                 *)
(***************************************************************************)
\* The positions, in the loop's log, of the lots that got their two legs.
Notes == {j \in 1..Len(trajets) : trajets[j].acces # None /\ trajets[j].marche # None}

\* The rank of a lot in the combined list.
Rang(id) == CHOOSE k \in 1..Len(tous_parkings) : tous_parkings[k].id = id

\* C1: in every result that names a primary lot, the scored candidates are in
\* non-decreasing order of score, they are the lots that got their two legs in
\* this cycle, and the primary lot is one of them whose score is less than or
\* equal to the score of every other one.
C1_ClassementCroissant ==
  (pc = "retour" /\ resultat.parking_recommande # None) =>
    /\ \A k \in 1..(Len(recommendations) - 1) :
          recommendations[k].score <= recommendations[k + 1].score
    /\ Len(recommendations) = Cardinality(Notes)
    /\ \A j \in Notes :
          \E k \in 1..Len(recommendations) : recommendations[k].parking.id = trajets[j].id
    /\ \E k \in 1..Len(recommendations) :
          /\ recommendations[k].parking.id = resultat.parking_recommande[1].id
          /\ \A m \in 1..Len(recommendations) :
                recommendations[k].score <= recommendations[m].score

\* A result whose primary lot was analysed after two lots that score strictly more.
C1_Temoin ==
  /\ pc = "retour"
  /\ Len(recommendations) >= 3
  /\ recommendations[1].score < recommendations[2].score
  /\ recommendations[2].score < recommendations[3].score
  /\ Rang(recommendations[1].parking.id) > Rang(recommendations[2].parking.id)
  /\ Rang(recommendations[1].parking.id) > Rang(recommendations[3].parking.id)

\* C2: when n >= 1 lots are scored, the alternatives are min(3, n - 1) entries,
\* the lots ranked 2nd to 4th by ascending score, in that order, and none of them
\* is the primary lot.
C2_AlternativesDeuxiemeAuQuatrieme ==
  (pc = "retour" /\ Cardinality(Notes) >= 1) =>
    /\ Len(recommendations) = Cardinality(Notes)
    /\ Len(resultat.alternatives) = Min(3, Cardinality(Notes) - 1)
    /\ \A k \in 1..Len(resultat.alternatives) :
          /\ resultat.alternatives[k].nom = recommendations[k + 1].parking.nom
          /\ resultat.alternatives[k].temps_total = recommendations[k + 1].temps_total
          /\ resultat.alternatives[k].nom # resultat.parking_recommande[1].nom
    /\ \A k \in 1..(Len(recommendations) - 1) :
          recommendations[k].score <= recommendations[k + 1].score

\* Five lots scored: three alternatives, and the fifth lot is left out.
C2_Temoin ==
  /\ pc = "retour"
  /\ Cardinality(Notes) = 5
  /\ Len(resultat.alternatives) = 3
  /\ \A k \in 1..3 : resultat.alternatives[k].nom # recommendations[5].parking.nom

\* C3: a lot whose driving leg or walking leg is null is never scored: it is not
\* among the scored candidates, nor the primary lot, nor an alternative; and the
\* lots after it are still analysed: the loop logs every lot of the list, in
\* order, and every lot that got its two legs is scored.
C3_TrajetNulJamaisNote ==
  /\ \A j \in 1..Len(trajets) :
        (trajets[j].acces = None \/ trajets[j].marche = None) =>
          /\ \A k \in 1..Len(recommendations) :
                recommendations[k].parking.id # trajets[j].id
          /\ (pc = "retour" /\ resultat.parking_recommande # None) =>
                /\ resultat.parking_recommande[1].id # trajets[j].id
                /\ \A k \in 1..Len(resultat.alternatives) :
                      resultat.alternatives[k].nom # tous_parkings[j].nom
  /\ pc = "analyse" => Len(trajets) = Min(i, Len(tous_parkings) + 1) - 1
  /\ pc = "retour" => Len(trajets) = Len(tous_parkings)
  /\ \A j \in 1..Len(trajets) : trajets[j].id = tous_parkings[j].id
  /\ \A j \in Notes :
        \E k \in 1..Len(recommendations) : recommendations[k].parking.id = trajets[j].id

\* A lot without a driving leg, then a lot without a walking leg, then a lot that
\* is scored and recommended.
C3_Temoin ==
  /\ pc = "retour"
  /\ Len(trajets) >= 3
  /\ trajets[1].acces = None
  /\ trajets[2].acces # None /\ trajets[2].marche = None
  /\ 3 \in Notes
  /\ resultat.parking_recommande # None
  /\ resultat.parking_recommande[1].id = trajets[3].id

\* C4: when no lot is reachable the result has a null primary lot and no
\* alternative, and carries the transit incidents, the stations of the
\* destination and the works fetched in the cycle.
C4_SansRecommandationPorteLeContexte ==
  (pc = "retour" /\ recommendations = << >>) =>
    /\ resultat.parking_recommande = None
    /\ resultat.alternatives = << >>
    /\ resultat.incidents_metro = incidents_metro
    /\ resultat.stations_destination = stations_destination
    /\ "travaux_tous" \in DOMAIN resultat
    /\ resultat.travaux_tous = travaux

\* C5: whatever the sources answer, the cycle never raises to its caller.
C5_JamaisException == pc # "exception"

\* The closed stations of a list.
NbFermees(stations) == Len(SelectSeq(stations, LAMBDA s : s.fermee))

\* The score of a scored lot with the destination's stations left out.
ScoreSansBonus(reco) ==
  calculer_score_parking(Centiemes(reco.prediction_saturation.taux_occupation_predit),
                         reco.temps_acces, reco.temps_marche_destination,
                         reco.parking.tarif_horaire, Len(reco.travaux_impactants),
                         [score_penalite |-> 5 * NbFermees(reco.stations_proches)],
                         reco.parking.distance_destination)

\* C8: in a cycle the closed stations of the destination take the same amount
\* off the score of every scored lot (10 points each, from the one list fetched
\* at the start), and the ranking is the one the scores without it give.
C8_BonusDestinationIdentique ==
  /\ \A k \in 1..Len(recommendations) :
        recommendations[k].score
          = ScoreSansBonus(recommendations[k]) - 1000 * NbFermees(stations_destination)
  /\ pc = "retour" =>
        \A k \in 1..(Len(recommendations) - 1) :
           ScoreSansBonus(recommendations[k]) <= ScoreSansBonus(recommendations[k + 1])

\* Two closed stations at the destination, a ranked lot with a closed station
\* nearby and a ranked lot with none.
C8_Temoin ==
  /\ pc = "retour"
  /\ NbFermees(stations_destination) = 2
  /\ \E k, m \in 1..Len(recommendations) :
        /\ NbFermees(recommendations[k].stations_proches) > 0
        /\ NbFermees(recommendations[m].stations_proches) = 0
        /\ recommendations[k].score # recommendations[m].score


(***************************************************************************)
(* The functions called on their own.  A call holds its arguments in args  *)
(* (pc = "appel") and its value in ret (pc = "valeur"); the variables of   *)
(* the cycle stay at rest.                                                 *)
(***************************************************************************)
HorsCycle ==
  /\ cle_maps = FALSE
  /\ source_travaux = "vide"
  /\ source_metro = "normal"
  /\ parkings_saemes = << >>
  /\ parkings_paris = << >>
  /\ travaux = << >>
  /\ incidents_metro = << >>
  /\ stations_destination = << >>
  /\ tous_parkings = << >>
  /\ i = 0
  /\ trajets = << >>
  /\ recommendations = << >>
  /\ resultat = << >>

\* The largest number of works on a route in a call of the score.
MaxTravaux == 2

\* The dictionaries given as impact_metro: None, one without the key, a bonus
\* and a penalty.
ImpactsEssai ==
  {None, [recommandation |-> << >>], [score_penalite |-> -20], [score_penalite |-> 5]}

InitScore ==
  /\ pc = "appel"
  /\ args \in [taux_saturation : {0, 50, 79, 80, 81, 100},
               temps_acces : {6, 21},
               temps_marche : {2, 11},
               tarif : {320, 440},
               nb_travaux : 0..MaxTravaux,
               impact_metro : ImpactsEssai,
               distance_destination : {0, 548, 2908}]
  /\ ret = << >>
  /\ HorsCycle

AppelerCalculerScoreParking ==
  /\ pc = "appel"
  /\ ret' = calculer_score_parking(args.taux_saturation, args.temps_acces,
                                   args.temps_marche, args.tarif, args.nb_travaux,
                                   args.impact_metro, args.distance_destination)
  /\ pc' = "valeur"
  /\ UNCHANGED << args, cle_maps, source_travaux, source_metro, parkings_saemes,
                  parkings_paris, travaux, incidents_metro, stations_destination,
                  tous_parkings, i, trajets, recommendations, resultat >>

NextScore == AppelerCalculerScoreParking

SpecScore == InitScore /\ [][NextScore]_vars

\* The transit term of a score, in points.
PenaliteTransit(impact_metro) ==
  IF impact_metro = None \/ "score_penalite" \notin DOMAIN impact_metro
    THEN 0
    ELSE impact_metro.score_penalite

\* C6: the score is saturation^2 * 100 + (access + walk) * 0.5 + tariff * 2
\* + works * 15 + distance_km * 10 + transit penalty - bonus, the bonus being 0
\* above a saturation of 0.8 and (1 - saturation) * 20 up to it (4 at 0.8); two
\* calls that differ only by the number of works differ by 15 points per work,
\* and the one with fewer works has the lower score.  In hundredths of a point.
C6_FormuleDuScore ==
  pc = "valeur" =>
    LET s == args.taux_saturation
        bonus == IF s > 80 THEN 0 ELSE (100 - s) * 20
        Autre(n) == calculer_score_parking(s, args.temps_acces, args.temps_marche,
                                           args.tarif, n, args.impact_metro,
                                           args.distance_destination)
    IN  /\ ret = s * s + (args.temps_acces + args.temps_marche) * 50 + args.tarif * 2
                   + args.nb_travaux * 1500 + args.distance_destination
                   + PenaliteTransit(args.impact_metro) * 100 - bonus
        /\ s = 80 => bonus = 400
        /\ \A n \in 0..MaxTravaux :
              /\ ret - Autre(n) = 1500 * (args.nb_travaux - n)
              /\ n < args.nb_travaux => Autre(n) < ret

\* A call at a saturation of exactly 0.8 with one work on the route: the bonus
\* of 4 points is in the score.
C6_Temoin ==
  /\ pc = "valeur"
  /\ args.taux_saturation = 80
  /\ args.nb_travaux = 1
  /\ args.impact_metro = None
  /\ ret = 6400 + (args.temps_acces + args.temps_marche) * 50 + args.tarif * 2
             + 1500 + args.distance_destination - 400


\* The longest station list given to a call.
MaxStations == 2

\* A station as recuperer_stations_metro_proches builds it.
StationEssai(k, fermee) ==
  [nom |-> StationsPrincipales[k].nom, slug |-> StationsPrincipales[k].slug,
   lignes |-> StationsPrincipales[k].lignes, fermee |-> fermee,
   raison_fermeture |-> IF fermee THEN << "Fermee", "7", "Travaux" >> ELSE << >>,
   distance_point |-> 100 * k]

\* The station lists of at most MaxStations stations, each open or closed, taken
\* in the order of the base among its first MaxStations + 1 stations.
ListesStations ==
  UNION {{[j \in 1..n |-> StationEssai(rangs[j], etats[j])] :
            rangs \in {r \in [1..n -> 1..(MaxStations + 1)] :
                         \A a, b \in 1..n : a < b => r[a] < r[b]},
            etats \in [1..n -> BOOLEAN]} : n \in 0..MaxStations}

InitImpactMetro ==
  /\ pc = "appel"
  /\ args \in [stations_parking : ListesStations, stations_dest : ListesStations]
  /\ ret = << >>
  /\ HorsCycle

AppelerCalculerImpactMetro ==
  /\ pc = "appel"
  /\ ret' = _calculer_impact_metro(args.stations_parking, args.stations_dest)
  /\ pc' = "valeur"
  /\ UNCHANGED << args, cle_maps, source_travaux, source_metro, parkings_saemes,
                  parkings_paris, travaux, incidents_metro, stations_destination,
                  tous_parkings, i, trajets, recommendations, resultat >>

NextImpactMetro == AppelerCalculerImpactMetro

SpecImpactMetro == InitImpactMetro /\ [][NextImpactMetro]_vars

\* The names of the closed stations of a list, in order.
NomsFermees(stations) ==
  LET fermees == SelectSeq(stations, LAMBDA s : s.fermee)
  IN  [k \in 1..Len(fermees) |-> fermees[k].nom]

\* C7: the penalty is 5 per closed station near the lot minus 10 per closed
\* station near the destination; each side lists exactly its closed stations;
\* the text is the "advantageous" one as soon as a station of the destination is
\* closed, the "attention" one when only stations of the lot are closed, the
\* "normal" one otherwise; 2 closed at the destination and none at the lot give -20.
C7_ImpactMetro ==
  pc = "valeur" =>
    LET np == Cardinality({k \in 1..Len(args.stations_parking) :
                             args.stations_parking[k].fermee})
        nd == Cardinality({k \in 1..Len(args.stations_dest) :
                             args.stations_dest[k].fermee})
    IN  /\ ret.score_penalite = 5 * np - 10 * nd
        /\ [k \in 1..Len(ret.stations_fermees_parking) |->
              ret.stations_fermees_parking[k].nom] = NomsFermees(args.stations_parking)
        /\ [k \in 1..Len(ret.stations_fermees_destination) |->
              ret.stations_fermees_destination[k].nom] = NomsFermees(args.stations_dest)
        /\ Len(ret.stations_fermees_parking) = np
        /\ Len(ret.stations_fermees_destination) = nd
        /\ nd >= 1 => ret.recommandation = << "Parking avantageux", nd >>
        /\ (nd = 0 /\ np >= 1) => ret.recommandation = << "Attention", np >>
        /\ (nd = 0 /\ np = 0) =>
              ret.recommandation = << "Metro normal, pas d'impact particulier" >>
        /\ (nd = 2 /\ np = 0) =>
              /\ ret.score_penalite = -20
              /\ ret.stations_fermees_parking = << >>

\* Two closed stations at the destination, an open one at the lot: -20 and the
\* "advantageous" text.
C7_Temoin ==
  /\ pc = "valeur"
  /\ Len(args.stations_parking) = 1
  /\ ~args.stations_parking[1].fermee
  /\ Len(args.stations_dest) = 2
  /\ \A k \in 1..2 : args.stations_dest[k].fermee
  /\ ret.score_penalite = -20
  /\ ret.recommandation = << "Parking avantageux", 2 >>


\* The largest number of closed stations near the lot in a call of the predictor.
MaxFermees == 5

\* The event lists given to a call: the two events of the collector, and two
\* events that both cover the Opera district.
EvenementsEssai ==
  {recuperer_evenements_locaux,
   << [nom |-> "Match", lieu |-> "olympia", rayon |-> 2000, coefficient_impact |-> 9],
      [nom |-> "Concert", lieu |-> "olympia", rayon |-> 1000, coefficient_impact |-> 7] >>}

\* The base predictions, in hundredths: a history sample lies between
\* 0.1 * 0.7 - 0.1 and 1.
BasesEssai == {-3, 0, 50, 80, 100}

InitPredict ==
  /\ pc = "appel"
  /\ \E parking \in {_generer_parkings_fallback(TRUE)[3], _generer_parkings_fallback(TRUE)[4]},
        prediction_base \in BasesEssai, meteo \in {20, 18, 21},
        nb_fermees \in 0..MaxFermees, evenements \in EvenementsEssai :
       args = [parking |-> parking, prediction_base |-> prediction_base,
               meteo |-> meteo,
               stations_proches |->
                 [k \in 1..(nb_fermees + 1) |-> StationEssai(k, k <= nb_fermees)],
               evenements |-> evenements]
  /\ ret = << >>
  /\ HorsCycle

AppelerPredireSaturation ==
  /\ pc = "appel"
  /\ ret' = predire_saturation(args.parking, args.prediction_base, EcartTypeHistorique,
                               args.meteo, args.stations_proches, args.evenements)
  /\ pc' = "valeur"
  /\ UNCHANGED << args, cle_maps, source_travaux, source_metro, parkings_saemes,
                  parkings_paris, travaux, incidents_metro, stations_destination,
                  tous_parkings, i, trajets, recommendations, resultat >>

NextPredict == AppelerPredireSaturation

SpecPredict == InitPredict /\ [][NextPredict]_vars

\* C9: the predicted occupancy is within [0, 1] whatever the base prediction, the
\* weather multiplier, the number of closed stations near the lot and the event
\* coefficients applied one after the other.
C9_PredictionBornee ==
  pc = "valeur" =>
    /\ ret.taux_occupation_predit >= 0
    /\ ret.taux_occupation_predit <= Unite

\* Five closed stations and an event on a base of 0.8: the product is above 1 and
\* the prediction is 1.
C9_Temoin ==
  /\ pc = "valeur"
  /\ args.prediction_base = 80
  /\ NbFermees(args.stations_proches) = 5
  /\ args.parking.id = "SAEM_003"
  /\ args.evenements = recuperer_evenements_locaux
  /\ ret.taux_occupation_predit = Unite

\* The longest lot list given to a call of the filter.
MaxLots == 17

\* The places of the known lots, and identifiers for the lots of a list.
LieuxEssai ==
  << "SAEM_001", "SAEM_009", "PARIS_3", "SAEM_003", "PARIS_2", "SAEM_002",
     "SAEM_010", "PARIS_4", "PARIS_1" >>

IdsEssai ==
  << "L01", "L02", "L03", "L04", "L05", "L06", "L07", "L08", "L09", "L10",
     "L11", "L12", "L13", "L14", "L15", "L16", "L17", "L18", "L19", "L20" >>

\* A list of n lots: the k-th one stands at the place of rank (k - 1) * pas
\* + decalage of LieuxEssai, taken round.
ListeEssai(n, pas, decalage) ==
  [k \in 1..n |->
     LET lieu == LieuxEssai[(((k - 1) * pas + decalage) % Len(LieuxEssai)) + 1]
     IN  Parking(IdsEssai[k], lieu, lieu, 100 + k, k, 350)]

InitFiltre ==
  /\ pc = "appel"
  /\ \E n \in 0..MaxLots, pas \in {1, 2, 4}, decalage \in 0..(Len(LieuxEssai) - 1),
        destination \in {Destination, Origine}, rayon_max \in {1000, 3000, 5000} :
       args = [parkings |-> ListeEssai(n, pas, decalage), destination |-> destination,
               rayon_max |-> rayon_max]
  /\ ret = << >>
  /\ HorsCycle

AppelerFiltrerParkingsPertinents ==
  /\ pc = "appel"
  /\ ret' = filtrer_parkings_pertinents(args.parkings, args.destination, args.rayon_max)
  /\ pc' = "valeur"
  /\ UNCHANGED << args, cle_maps, source_travaux, source_metro, parkings_saemes,
                  parkings_paris, travaux, incidents_metro, stations_destination,
                  tous_parkings, i, trajets, recommendations, resultat >>

NextFiltre == AppelerFiltrerParkingsPertinents

SpecFiltre == InitFiltre /\ [][NextFiltre]_vars

\* The distance of a lot of the list given to the filter, from the table.
DistanceDuLot(p) == DistanceM[p.lieu][args.destination]

\* C10: the filter returns at most 15 lots, each a lot of the list at most R away
\* from the destination, in non-decreasing order of distance; they are the
\* nearest ones: no lot within R that is left out is strictly nearer than a
\* returned lot, and a lot within R is left out only when 15 are returned.
C10_FiltreDesPlusProches ==
  pc = "valeur" =>
    LET dedans == {k \in 1..Len(args.parkings) :
                     DistanceDuLot(args.parkings[k]) <= args.rayon_max}
        rendus == {k \in 1..Len(args.parkings) :
                     \E j \in 1..Len(ret) : ret[j].id = args.parkings[k].id}
    IN  /\ Len(ret) <= 15
        /\ Len(ret) = Min(15, Cardinality(dedans))
        /\ Cardinality(rendus) = Len(ret)
        /\ rendus \subseteq dedans
        /\ \A j \in 1..Len(ret) :
              /\ DistanceDuLot(ret[j]) <= args.rayon_max
              /\ ret[j].distance_destination = DistanceDuLot(ret[j])
        /\ \A j \in 1..(Len(ret) - 1) :
              ret[j].distance_destination <= ret[j + 1].distance_destination
        /\ \A k \in dedans \ rendus : \A j \in 1..Len(ret) :
              DistanceDuLot(args.parkings[k]) >= ret[j].distance_destination

\* Seventeen lots within the radius: fifteen are returned, the first lot of the
\* list is left out and the last one is returned.
C10_Temoin ==
  /\ pc = "valeur"
  /\ Len(args.parkings) = 17
  /\ \A k \in 1..17 : DistanceDuLot(args.parkings[k]) <= args.rayon_max
  /\ Len(ret) = 15
  /\ \A j \in 1..15 : ret[j].id # args.parkings[1].id
  /\ \E j \in 1..15 : ret[j].id = args.parkings[17].id


\* The longest list of works given to a call of the works impact.
MaxChantiers == 3

\* The works of a call: near the origin (Rue de Rivoli), at the Gare de l'Est, or
\* far from both ends (Champs-Elysees); of either level; affecting circulation
\* or not.
ChantiersEssai ==
  {[Travaux(lieu, "Travaux", lieu, niveau) EXCEPT !.impact_circulation = impact] :
     lieu \in {"TRAV_003", "TRAV_PERT_1", "TRAV_001"},
     niveau \in {"Tres perturbant", "Perturbant"},
     impact \in BOOLEAN}

InitImpactTravaux ==
  /\ pc = "appel"
  /\ \E n \in 0..MaxChantiers :
       \E liste_travaux \in [1..n -> ChantiersEssai],
          destination \in {"PARIS_1", "SAEM_009"} :
         args = [origine |-> Origine, destination |-> destination,
                 travaux |-> liste_travaux]
  /\ ret = << >>
  /\ HorsCycle

AppelerCalculerImpactTravaux ==
  /\ pc = "appel"
  /\ ret' = _calculer_impact_travaux_sur_trajet(args.origine, args.destination,
                                                args.travaux)
  /\ pc' = "valeur"
  /\ UNCHANGED << args, cle_maps, source_travaux, source_metro, parkings_saemes,
                  parkings_paris, travaux, incidents_metro, stations_destination,
                  tous_parkings, i, trajets, recommendations, resultat >>

NextImpactTravaux == AppelerCalculerImpactTravaux

SpecImpactTravaux == InitImpactTravaux /\ [][NextImpactTravaux]_vars

\* The works of the call that count: they affect circulation and lie less than
\* 1 km from the origin or from the destination.
ChantiersComptes ==
  {k \in 1..Len(args.travaux) :
     /\ args.travaux[k].impact_circulation
     /\ \/ DistanceM[args.origine][args.travaux[k].lieu] < 1000
        \/ DistanceM[args.destination][args.travaux[k].lieu] < 1000}

\* C11: the works impact is min(0.80, 0.30 per "Tres perturbant" work that counts
\* + 0.15 per other work that counts); it is never above 0.80; the works that do
\* not affect circulation or lie 1 km or more from both ends add nothing.  In
\* hundredths.
C11_ImpactTravauxPlafonne ==
  pc = "valeur" =>
    LET tres == {k \in ChantiersComptes :
                   args.travaux[k].niveau_perturbation = "Tres perturbant"}
    IN  /\ ret = Min(80, 30 * Cardinality(tres)
                           + 15 * Cardinality(ChantiersComptes \ tres))
        /\ ret <= 80
        /\ ChantiersComptes = {} => ret = 0

\* Three "Tres perturbant" works that count (0.90): the impact is 0.80.
C11_Temoin ==
  /\ pc = "valeur"
  /\ Len(args.travaux) = 3
  /\ Cardinality(ChantiersComptes) = 3
  /\ \A k \in 1..3 : args.travaux[k].niveau_perturbation = "Tres perturbant"
  /\ \E k \in 1..3 : args.travaux[k].lieu = "TRAV_PERT_1"
  /\ ret = 80


(***************************************************************************)
(* The fetch operations of CollecteurDonnees called without a destination. *)
(***************************************************************************)
\* The largest number of records in a feed's answer.
MaxFiches == 2

\* A record of the SAEMES referential joined with the real-time feed: the
\* capacity, and the free spaces the real-time feed gives for the lot (None when
\* it has no entry for it).
FichesSaemes ==
  {[capacite_totale |-> c, places_temps_reel |-> p] :
     c \in {0, 100}, p \in {None, Some(-5), Some(40), Some(150)}}

\* A record of the municipal feed: the capacity.
FichesParis == {[capacite_totale |-> c] : c \in {0, 100}}

\* random.randint(a, b) raises ValueError when b < a.
RandintLeve(a, b) == b < a

\* lines 294-314: the lot built from the k-th record; the default of
\* places_disponibles.get is drawn whether or not the real-time feed has the lot;
\* bas picks the lower end of the draw.
ParkingSaemes(k, fiche, bas) ==
  LET capacite == fiche.capacite_totale
      tirage == IF bas THEN 10 ELSE capacite \div 2
      places_libres == IF fiche.places_temps_reel # None
                         THEN fiche.places_temps_reel[1]
                         ELSE tirage
  IN  Parking(IdsEssai[k], "Parking Saemes", LieuxEssai[k], capacite, places_libres, 350)

\* recuperer_parkings_saemes() without destination: the lots of the records, the
\* fallback on an error (of the request, or of a draw) and when there is no lot.
recuperer_parkings_saemes(erreur, fiches, bas, haut) ==
  LET leve == \E k \in 1..Len(fiches) : RandintLeve(10, fiches[k].capacite_totale \div 2)
      reponse == [k \in 1..Len(fiches) |-> ParkingSaemes(k, fiches[k], bas)]
  IN  ParkingsSaemes(erreur \/ leve, reponse, haut)

\* lines 371-389: the lot built from the k-th record of the municipal feed.
ParkingParis(k, fiche, bas) ==
  LET capacite == fiche.capacite_totale
      places_libres == IF bas THEN 20 ELSE (capacite * 7) \div 10
  IN  Parking(IdsEssai[k], "Parking Municipal", LieuxEssai[k], capacite, places_libres, 450)

\* recuperer_parkings_paris() without destination: the lots built before the
\* first error, none when the request fails.
recuperer_parkings_paris(erreur, fiches, bas) ==
  LET Leve(k) == RandintLeve(20, (fiches[k].capacite_totale * 7) \div 10)
      construits == {k \in 0..Len(fiches) : \A j \in 1..k : ~Leve(j)}
      dernier == CHOOSE k \in construits : \A j \in construits : j <= k
  IN  IF erreur THEN << >>
      ELSE [k \in 1..dernier |-> ParkingParis(k, fiches[k], bas)]

InitCollecte ==
  /\ pc = "appel"
  /\ \/ \E erreur \in BOOLEAN, n \in 0..MaxFiches, bas \in BOOLEAN, haut \in BOOLEAN :
          \E fiches \in [1..n -> FichesSaemes] :
             args = [operation |-> "recuperer_parkings_saemes", erreur |-> erreur,
                     fiches |-> fiches, bas |-> bas, haut |-> haut]
     \/ \E erreur \in BOOLEAN, n \in 0..MaxFiches, bas \in BOOLEAN :
          \E fiches \in [1..n -> FichesParis] :
             args = [operation |-> "recuperer_parkings_paris", erreur |-> erreur,
                     fiches |-> fiches, bas |-> bas]
     \/ \E source \in SourcesTravaux :
          args = [operation |-> "recuperer_travaux_paris", source |-> source]
     \/ \E source \in SourcesMetro \cup {"vide"} :
          args = [operation |-> "recuperer_incidents_metro", source |-> source]
  /\ ret = << >>
  /\ HorsCycle

AppelerRecupererParkingsSaemes ==
  /\ pc = "appel"
  /\ args.operation = "recuperer_parkings_saemes"
  /\ ret' = recuperer_parkings_saemes(args.erreur, args.fiches, args.bas, args.haut)
  /\ pc' = "valeur"
  /\ UNCHANGED << args, cle_maps, source_travaux, source_metro, parkings_saemes,
                  parkings_paris, travaux, incidents_metro, stations_destination,
                  tous_parkings, i, trajets, recommendations, resultat >>

AppelerRecupererParkingsParis ==
  /\ pc = "appel"
  /\ args.operation = "recuperer_parkings_paris"
  /\ ret' = recuperer_parkings_paris(args.erreur, args.fiches, args.bas)
  /\ pc' = "valeur"
  /\ UNCHANGED << args, cle_maps, source_travaux, source_metro, parkings_saemes,
                  parkings_paris, travaux, incidents_metro, stations_destination,
                  tous_parkings, i, trajets, recommendations, resultat >>

AppelerRecupererTravauxParis ==
  /\ pc = "appel"
  /\ args.operation = "recuperer_travaux_paris"
  /\ ret' = recuperer_travaux_paris(args.source)
  /\ pc' = "valeur"
  /\ UNCHANGED << args, cle_maps, source_travaux, source_metro, parkings_saemes,
                  parkings_paris, travaux, incidents_metro, stations_destination,
                  tous_parkings, i, trajets, recommendations, resultat >>

AppelerRecupererIncidentsMetro ==
  /\ pc = "appel"
  /\ args.operation = "recuperer_incidents_metro"
  /\ ret' = recuperer_incidents_metro(args.source)
  /\ pc' = "valeur"
  /\ UNCHANGED << args, cle_maps, source_travaux, source_metro, parkings_saemes,
                  parkings_paris, travaux, incidents_metro, stations_destination,
                  tous_parkings, i, trajets, recommendations, resultat >>

NextCollecte ==
  \/ AppelerRecupererParkingsSaemes
  \/ AppelerRecupererParkingsParis
  \/ AppelerRecupererTravauxParis
  \/ AppelerRecupererIncidentsMetro

SpecCollecte == InitCollecte /\ [][NextCollecte]_vars

\* C12: each fetch operation called without a destination returns a non-empty
\* list, the fallback dataset standing in when the source fails or gives no
\* usable record.
C12_CollecteJamaisVide == pc = "valeur" => ret # << >>

\* C13: every lot the SAEMES and municipal fetches return has a capacity above 0
\* and free spaces between 0 and the capacity.
C13_PlacesDansLaCapacite ==
  (pc = "valeur" /\ args.operation \in {"recuperer_parkings_saemes",
                                        "recuperer_parkings_paris"}) =>
    \A k \in 1..Len(ret) :
       /\ ret[k].capacite_totale > 0
       /\ ret[k].places_disponibles >= 0
       /\ ret[k].places_disponibles <= ret[k].capacite_totale


(***************************************************************************)
(* The candidates of a cycle: lines 1241-1256 on feeds of many lots.       *)
(***************************************************************************)
\* Identifiers for the lots of the municipal feed.
IdsParisEssai ==
  << "P01", "P02", "P03", "P04", "P05", "P06", "P07", "P08", "P09", "P10",
     "P11", "P12", "P13", "P14", "P15", "P16", "P17", "P18", "P19", "P20" >>

ListeParisEssai(n, pas, decalage) ==
  [k \in 1..n |-> [ListeEssai(n, pas, decalage)[k] EXCEPT !.id = IdsParisEssai[k]]]

\* tous_parkings: each family filtered on its own (lines 334 and 397-398), then
\* the two lists joined (line 1256).
TousParkings(saemes, paris, destination) ==
  filtrer_parkings_pertinents(saemes, destination, RayonMaxM)
    \o (IF paris # << >>
          THEN filtrer_parkings_pertinents(paris, destination, RayonMaxM)
          ELSE paris)

InitCandidats ==
  /\ pc = "appel"
  /\ \E n_saemes \in 1..MaxLots, n_paris \in 0..MaxLots, decalage \in {0, 4} :
       args = [saemes |-> ListeEssai(n_saemes, 1, decalage),
               paris |-> ListeParisEssai(n_paris, 2, decalage),
               destination |-> Destination]
  /\ ret = << >>
  /\ HorsCycle

AppelerTousParkings ==
  /\ pc = "appel"
  /\ ret' = TousParkings(args.saemes, args.paris, args.destination)
  /\ pc' = "valeur"
  /\ UNCHANGED << args, cle_maps, source_travaux, source_metro, parkings_saemes,
                  parkings_paris, travaux, incidents_metro, stations_destination,
                  tous_parkings, i, trajets, recommendations, resultat >>

NextCandidats == AppelerTousParkings

SpecCandidats == InitCandidats /\ [][NextCandidats]_vars

\* C14: the candidates of a cycle are the lots of the two families restricted to
\* the 15 nearest to the destination: at most 15 lots are analysed.
C14_QuinzeCandidatsAuPlus == pc = "valeur" => Len(ret) <= 15


\* The product of the coefficients of the events whose zone holds the lot of the
\* call, in twenty-fifths.
CoefficientsDeLAppel ==
  LET Coef(k) ==
        IF DistanceM[args.parking.lieu][args.evenements[k].lieu] <= args.evenements[k].rayon
          THEN args.evenements[k].coefficient_impact
          ELSE 5
  IN  Coef(1) * Coef(2)

\* C15: the transit adjustment multiplies the prediction by 1.15 once per closed
\* station near the lot: n closed stations scale it by 1.15^n before the clamp.
\* Stated for n up to 2, in 1/(20 * Unite).
C15_FermeturesComposees ==
  (pc = "valeur" /\ NbFermees(args.stations_proches) <= 2) =>
    LET n == NbFermees(args.stations_proches)
        puissance == IF n = 0 THEN 20 * 20 ELSE IF n = 1 THEN 23 * 20 ELSE 23 * 23
    IN  ret.taux_occupation_predit * 20
          = Min(Max(args.prediction_base * args.meteo * CoefficientsDeLAppel * puissance,
                    0),
                Unite * 20)


(***************************************************************************)
(* AssistantNavigation: the polyline of a route and the choice among       *)
(* alternative routes.  A string is the sequence of its character codes, a *)
(* coordinate is in 1/100000 of a degree.                                  *)
(***************************************************************************)
\* Faulty variant of the sign decoding: the lowest bit is dropped, not read.
ZigZagSansSigne(result) == result \div 2

\* The signed value of a number read from a polyline:
\* ~(result >> 1) if result & 1 else (result >> 1).
ZigZag(result) == IF result % 2 = 1 THEN -(result \div 2) - 1 ELSE result \div 2

\* The inner loop of _decode_polyline from position index on: five bits a
\* character, lowest first, while the character carries the bit 0x20.  Reading
\* past the end of the string raises IndexError (leve).
RECURSIVE LireNombre(_, _, _, _)
LireNombre(polyline_str, index, shift, result) ==
  IF index > Len(polyline_str)
    THEN [leve |-> TRUE, result |-> 0, index |-> index]
    ELSE LET byte == polyline_str[index] - 63
             suivant == result + (byte % 32) * 2^shift
         IN  IF byte >= 32
               THEN LireNombre(polyline_str, index + 1, shift + 5, suivant)
               ELSE [leve |-> FALSE, result |-> suivant, index |-> index + 1]

\* The outer loop of _decode_polyline: a latitude delta, then a longitude delta,
\* added to the running totals, one point appended a pair.
RECURSIVE DecoderDepuis(_, _, _, _, _)
DecoderDepuis(polyline_str, index, lat, lng, coordinates) ==
  IF index > Len(polyline_str)
    THEN [leve |-> FALSE, coordinates |-> coordinates]
    ELSE LET dlat == LireNombre(polyline_str, index, 0, 0)
             dlng == LireNombre(polyline_str, dlat.index, 0, 0)
         IN  IF dlat.leve \/ dlng.leve
               THEN [leve |-> TRUE, coordinates |-> << >>]
               ELSE DecoderDepuis(polyline_str, dlng.index, lat + ZigZag(dlat.result),
                                  lng + ZigZag(dlng.result),
                                  Append(coordinates, << lat + ZigZag(dlat.result),
                                                         lng + ZigZag(dlng.result) >>))

_decode_polyline(polyline_str) == DecoderDepuis(polyline_str, 1, 0, 0, << >>)

\* What the provider does to build a polyline: each delta doubled (and
\* complemented when negative), cut in groups of five bits, lowest first, every
\* group but the last carrying 0x20, each group + 63 as a character.
RECURSIVE EncoderNombre(_)
EncoderNombre(valeur) ==
  IF valeur >= 32
    THEN << (valeur % 32) + 32 + 63 >> \o EncoderNombre(valeur \div 32)
    ELSE << valeur + 63 >>

EncoderDelta(delta) == EncoderNombre(IF delta < 0 THEN -(2 * delta) - 1 ELSE 2 * delta)

RECURSIVE EncoderDepuis(_, _, _, _)
EncoderDepuis(points, k, lat, lng) ==
  IF k > Len(points)
    THEN << >>
    ELSE EncoderDelta(points[k][1] - lat) \o EncoderDelta(points[k][2] - lng)
           \o EncoderDepuis(points, k + 1, points[k][1], points[k][2])

Encoder(points) == EncoderDepuis(points, 1, 0, 0)


\* Where the lots stand, in 1/100000 of a degree: the points the routes of the
\* model go through.
CoordonneesE5 ==
  [ SAEM_001 |-> << 4885660, 235220 >>, SAEM_003 |-> << 4887080, 233380 >>,
    SAEM_009 |-> << 4888890, 237000 >>, PARIS_1 |-> << 4887660, 235890 >> ]

LieuDuPoint(point) == CHOOSE lieu \in DOMAIN CoordonneesE5 : CoordonneesE5[lieu] = point

\* The works penalty of a route: every 10th decoded point from the first one
\* (route_points[::10]) against every work; less than 500 m costs 10 for a
\* "Tres perturbant" work and 5 for any other.
ImpactTravauxRoute(route_points, liste_travaux) ==
  LET Cout(point, travail) ==
        IF _calculer_distance(LieuDuPoint(point), travail.lieu) < 500
          THEN IF travail.niveau_perturbation = "Tres perturbant" THEN 10 ELSE 5
          ELSE 0
      SurTravaux[point \in {route_points[k] : k \in 1..Len(route_points)}] ==
        LET Somme[j \in 0..Len(liste_travaux)] ==
              IF j = 0 THEN 0 ELSE Somme[j - 1] + Cout(point, liste_travaux[j])
        IN  Somme[Len(liste_travaux)]
      SurPoints[k \in 0..Len(route_points)] ==
        IF k = 0 THEN 0
        ELSE SurPoints[k - 1] + (IF (k - 1) % 10 = 0 THEN SurTravaux[route_points[k]] ELSE 0)
  IN  SurPoints[Len(route_points)]

\* The composite score of a route: its duration in whole minutes plus its works
\* penalty.
ScoreRoute(route, liste_travaux) ==
  LET encoded_polyline == route.overview_polyline
      route_points == IF encoded_polyline # << >>
                        THEN _decode_polyline(encoded_polyline).coordinates
                        ELSE << >>
  IN  (route.duration \div 60) + ImpactTravauxRoute(route_points, liste_travaux)

\* Faulty variant of the choice: a route replaces the best one when its score is
\* not above it, so the last of the best routes is returned.
ChoisirDerniereMeilleure(routes, origine, destination, source) ==
  LET liste_travaux == recuperer_travaux_paris(source)
      Boucle[k \in 0..Len(routes)] ==
        IF k = 0 THEN [meilleure_route |-> routes[1], meilleur_score |-> None]
        ELSE LET score == ScoreRoute(routes[k], liste_travaux)
             IN  IF \/ Boucle[k - 1].meilleur_score = None
                    \/ score <= Boucle[k - 1].meilleur_score[1]
                   THEN [meilleure_route |-> routes[k], meilleur_score |-> Some(score)]
                   ELSE Boucle[k - 1]
  IN  Boucle[Len(routes)].meilleure_route

\* The loop over the routes: the best route starts as the first one with a score
\* of infinity (None), and a route replaces it when its score is strictly lower.
_choisir_meilleure_route_evitant_travaux(routes, origine, destination, source) ==
  LET liste_travaux == recuperer_travaux_paris(source)
      Boucle[k \in 0..Len(routes)] ==
        IF k = 0 THEN [meilleure_route |-> routes[1], meilleur_score |-> None]
        ELSE LET score == ScoreRoute(routes[k], liste_travaux)
             IN  IF \/ Boucle[k - 1].meilleur_score = None
                    \/ score < Boucle[k - 1].meilleur_score[1]
                   THEN [meilleure_route |-> routes[k], meilleur_score |-> Some(score)]
                   ELSE Boucle[k - 1]
  IN  Boucle[Len(routes)].meilleure_route

MaxRoutes == 3

\* The traces of the routes tried: eleven points, the first, the nine that the
\* sampling skips, and the eleventh.
Trace(premier, milieu, onzieme) ==
  [k \in 1..11 |-> CoordonneesE5[IF k = 1 THEN premier
                                 ELSE IF k = 11 THEN onzieme ELSE milieu]]

\* The routes the provider may list: a duration in seconds and a polyline.
RoutesEssai ==
  { [duration |-> 600, overview_polyline |-> << >>],
    [duration |-> 900,
     overview_polyline |-> Encoder(Trace("SAEM_009", "SAEM_009", "SAEM_003"))],
    [duration |-> 1199,
     overview_polyline |-> Encoder(Trace("SAEM_009", "SAEM_009", "SAEM_003"))],
    [duration |-> 600,
     overview_polyline |-> Encoder(Trace("SAEM_001", "PARIS_1", "SAEM_009"))],
    [duration |-> 590,
     overview_polyline |-> Encoder(Trace("SAEM_009", "SAEM_001", "PARIS_1"))],
    [duration |-> 600,
     overview_polyline |-> Encoder(Trace("SAEM_009", "SAEM_001", "PARIS_1"))] }

InitRoutes ==
  /\ pc = "appel"
  /\ \E n \in 2..MaxRoutes :
       \E routes \in [1..n -> RoutesEssai], source \in SourcesTravaux :
         args = [routes |-> routes, origine |-> Origine, destination |-> Destination,
                 source |-> source]
  /\ ret = << >>
  /\ HorsCycle

AppelerChoisirMeilleureRoute ==
  /\ pc = "appel"
  /\ ret' = _choisir_meilleure_route_evitant_travaux(args.routes, args.origine,
                                                     args.destination, args.source)
  /\ pc' = "valeur"
  /\ UNCHANGED << args, cle_maps, source_travaux, source_metro, parkings_saemes,
                  parkings_paris, travaux, incidents_metro, stations_destination,
                  tous_parkings, i, trajets, recommendations, resultat >>

NextRoutes == AppelerChoisirMeilleureRoute

SpecRoutes == InitRoutes /\ [][NextRoutes]_vars

\* The score of the k-th route of the call as the sum it is said to be: whole
\* minutes, plus 10 or 5 for each pair of a sampled point (the 1st, the 11th,
\* ...) and a work less than 500 m from it.
ScoreDit(k) ==
  LET route == args.routes[k]
      points == _decode_polyline(route.overview_polyline).coordinates
      chantiers == recuperer_travaux_paris(args.source)
      Paires(tres) ==
        {c \in {j \in 1..Len(points) : j % 10 = 1} \X (1..Len(chantiers)) :
           /\ DistanceM[LieuDuPoint(points[c[1]])][chantiers[c[2]].lieu] < 500
           /\ (chantiers[c[2]].niveau_perturbation = "Tres perturbant") = tres}
  IN  (route.duration \div 60) + 10 * Cardinality(Paires(TRUE))
        + 5 * Cardinality(Paires(FALSE))

\* C16: the route returned has the lowest composite score of the routes listed,
\* and it is the first of the list with that score.
C16_MeilleureRoutePremiereVue ==
  pc = "valeur" =>
    \E k \in 1..Len(args.routes) :
      /\ ret = args.routes[k]
      /\ \A j \in 1..Len(args.routes) : ScoreDit(k) <= ScoreDit(j)
      /\ \A j \in 1..(k - 1) : ScoreDit(j) > ScoreDit(k)

\* Three routes, the first one worse than the other two, which tie on a score
\* where works weigh: the second one is returned.
C16_Temoin ==
  /\ pc = "valeur"
  /\ Len(args.routes) = 3
  /\ ScoreDit(1) > ScoreDit(2)
  /\ ScoreDit(2) = ScoreDit(3)
  /\ args.routes[2] # args.routes[3]
  /\ ScoreDit(2) > args.routes[2].duration \div 60
  /\ ret = args.routes[2]


(***************************************************************************)
(* _decode_polyline on its own.                                            *)
(***************************************************************************)
MaxPoints == 3

\* Coordinates tried: next to each other (deltas of one character), far apart
\* and negative (deltas of five characters), and the origin.
PointsEssai ==
  { << 4885660, 235220 >>, << 4885661, 235219 >>, << -2355050, -4663330 >>, << 0, 0 >> }

ListesPoints == UNION { [1..n -> PointsEssai] : n \in 0..MaxPoints }

\* The strings tried: the encoding of a list of points, whole or cut one
\* character short.
InitPolyline ==
  /\ pc = "appel"
  /\ \E points \in ListesPoints, coupe \in BOOLEAN :
       /\ coupe => points # << >>
       /\ args = [polyline_str |->
                    IF coupe THEN SubSeq(Encoder(points), 1, Len(Encoder(points)) - 1)
                    ELSE Encoder(points)]
  /\ ret = << >>
  /\ HorsCycle

AppelerDecodePolyline ==
  /\ pc = "appel"
  /\ ret' = _decode_polyline(args.polyline_str)
  /\ pc' = "valeur"
  /\ UNCHANGED << args, cle_maps, source_travaux, source_metro, parkings_saemes,
                  parkings_paris, travaux, incidents_metro, stations_destination,
                  tous_parkings, i, trajets, recommendations, resultat >>

NextPolyline == AppelerDecodePolyline

SpecPolyline == InitPolyline /\ [][NextPolyline]_vars

\* C19: the empty string decodes to the empty sequence; decoding the same string
\* again gives the same sequence; the encoding of k coordinate pairs decodes,
\* without an error, to exactly k points, the k-th being the sum of the first k
\* latitude deltas and the sum of the first k longitude deltas, that is the k-th
\* pair encoded.
C19_DecodageDesPaires ==
  pc = "valeur" =>
    /\ args.polyline_str = << >> => ret = [leve |-> FALSE, coordinates |-> << >>]
    /\ ret = _decode_polyline(args.polyline_str)
    /\ \A points \in ListesPoints :
         args.polyline_str = Encoder(points) =>
           /\ ~ret.leve
           /\ Len(ret.coordinates) = Len(points)
           /\ \A k \in 1..Len(points) : ret.coordinates[k] = points[k]

\* Three pairs decoded, with negative deltas and deltas of several characters.
C19_Temoin ==
  /\ pc = "valeur"
  /\ ~ret.leve
  /\ Len(ret.coordinates) = 3
  /\ Len(args.polyline_str) > 6
  /\ ret.coordinates[1][1] > 0
  /\ ret.coordinates[2][1] < ret.coordinates[1][1]
  /\ ret.coordinates[3][2] > ret.coordinates[2][2]


(***************************************************************************)
(* The two copies of _calculer_distance as arithmetic.  Angles are whole   *)
(* degrees; a floating-point number is a whole number of thousandths, and  *)
(* every operation that rounds in floating point rounds here to the        *)
(* nearest thousandth; NaN is the value whose nan field is TRUE.           *)
(***************************************************************************)
Echelle == 1000

R == 6371

Flottant(valeur) == [nan |-> FALSE, valeur |-> valeur]

NaN == [nan |-> TRUE, valeur |-> 0]

\* x == y on floating-point numbers: NaN equals nothing, itself included.
EgalFlottant(x, y) == ~x.nan /\ ~y.nan /\ x.valeur = y.valeur

\* The sine of 0, 1, ..., 90 degrees, rounded.
SinusArrondis ==
  << 0, 17, 35, 52, 70, 87, 105, 122, 139, 156, 174, 191, 208, 225, 242, 259, 276, 292,
     309, 326, 342, 358, 375, 391, 407, 423, 438, 454, 469, 485, 500, 515, 530, 545,
     559, 574, 588, 602, 616, 629, 643, 656, 669, 682, 695, 707, 719, 731, 743, 755,
     766, 777, 788, 799, 809, 819, 829, 839, 848, 857, 866, 875, 883, 891, 899, 906,
     914, 921, 927, 934, 940, 946, 951, 956, 961, 966, 970, 974, 978, 982, 985, 988,
     990, 993, 995, 996, 998, 999, 999, 1000, 1000 >>

\* np.sin and np.cos of an angle of -180..180 degrees.
Sin(degres) ==
  LET Positif(d) == SinusArrondis[(IF d > 90 THEN 180 - d ELSE d) + 1]
  IN  IF degres < 0 THEN -Positif(-degres) ELSE Positif(degres)

Cos(degres) ==
  LET d == IF degres < 0 THEN -degres ELSE degres
  IN  IF d > 90 THEN -SinusArrondis[(d - 90) + 1] ELSE SinusArrondis[(90 - d) + 1]

\* A rounded product of two non-negative numbers.
Fois(x, y) == (x * y + Echelle \div 2) \div Echelle

\* np.sqrt: NaN below zero.
Sqrt(x) ==
  IF x < 0 THEN NaN
  ELSE Flottant(CHOOSE r \in 0..(2 * Echelle) :
                  r * r <= x * Echelle /\ x * Echelle < (r + 1) * (r + 1))

\* np.arctan2 of two non-negative numbers, in whole degrees; NaN when either is.
Arctan2(y, x) ==
  IF y.nan \/ x.nan THEN NaN
  ELSE LET Ecart(t) == LET e == Sin(t) * x.valeur - Cos(t) * y.valeur
                       IN  IF e < 0 THEN -e ELSE e
       IN  Flottant(CHOOSE t \in 0..90 :
                      /\ \A u \in 0..90 : Ecart(t) <= Ecart(u)
                      /\ \A u \in 0..(t - 1) : Ecart(u) > Ecart(t))

\* CollecteurDonnees._calculer_distance, in metres: c is 2 * arctan2 in degrees,
\* turned into thousandths of a radian (17.453 a degree) and multiplied by R.
CollecteurDonnees_calculer_distance(lat1, lon1, lat2, lon2) ==
  LET dlat == lat2 - lat1
      dlon == lon2 - lon1
      a == Fois(Sin(dlat \div 2), Sin(dlat \div 2))
             + Fois(Fois(Cos(lat1), Cos(lat2)), Fois(Sin(dlon \div 2), Sin(dlon \div 2)))
      c == Arctan2(Sqrt(a), Sqrt(Echelle - a))
  IN  IF c.nan THEN NaN ELSE Flottant(R * ((2 * c.valeur * 17453) \div 1000))

\* PredicteurSaturation._calculer_distance: the same lines, written a second time.
PredicteurSaturation_calculer_distance(lat1, lon1, lat2, lon2) ==
  LET dlat == lat2 - lat1
      dlon == lon2 - lon1
      a == Fois(Sin(dlat \div 2), Sin(dlat \div 2))
             + Fois(Fois(Cos(lat1), Cos(lat2)), Fois(Sin(dlon \div 2), Sin(dlon \div 2)))
      c == Arctan2(Sqrt(a), Sqrt(Echelle - a))
  IN  IF c.nan THEN NaN ELSE Flottant(R * ((2 * c.valeur * 17453) \div 1000))

\* Valid coordinates tried, in even degrees: Paris, the equator, a pole, and
\* points that face each other across the globe.
LatitudesEssai == {-20, 0, 20, 48, 90}

LongitudesEssai == {-178, -20, 0, 2, 160, 180}

InitDistance ==
  /\ pc = "appel"
  /\ \E classe \in {"CollecteurDonnees", "PredicteurSaturation"},
        lat1 \in LatitudesEssai, lon1 \in LongitudesEssai,
        lat2 \in LatitudesEssai, lon2 \in LongitudesEssai :
       args = [classe |-> classe, lat1 |-> lat1, lon1 |-> lon1, lat2 |-> lat2,
               lon2 |-> lon2]
  /\ ret = << >>
  /\ HorsCycle

AppelerCalculerDistanceCollecteur ==
  /\ pc = "appel"
  /\ args.classe = "CollecteurDonnees"
  /\ ret' = CollecteurDonnees_calculer_distance(args.lat1, args.lon1, args.lat2, args.lon2)
  /\ pc' = "valeur"
  /\ UNCHANGED << args, cle_maps, source_travaux, source_metro, parkings_saemes,
                  parkings_paris, travaux, incidents_metro, stations_destination,
                  tous_parkings, i, trajets, recommendations, resultat >>

AppelerCalculerDistancePredicteur ==
  /\ pc = "appel"
  /\ args.classe = "PredicteurSaturation"
  /\ ret' = PredicteurSaturation_calculer_distance(args.lat1, args.lon1, args.lat2, args.lon2)
  /\ pc' = "valeur"
  /\ UNCHANGED << args, cle_maps, source_travaux, source_metro, parkings_saemes,
                  parkings_paris, travaux, incidents_metro, stations_destination,
                  tous_parkings, i, trajets, recommendations, resultat >>

NextDistance == AppelerCalculerDistanceCollecteur \/ AppelerCalculerDistancePredicteur

SpecDistance == InitDistance /\ [][NextDistance]_vars

\* C20: the distance from a point to itself is 0, the distance from a to b
\* equals the distance from b to a, and the two copies of the function return
\* equal values for the same arguments.
C20_DistanceNulleSymetriqueIdentique ==
  pc = "valeur" =>
    /\ (args.lat1 = args.lat2 /\ args.lon1 = args.lon2) => EgalFlottant(ret, Flottant(0))
    /\ EgalFlottant(ret, CollecteurDonnees_calculer_distance(args.lat2, args.lon2, args.lat1, args.lon1))
    /\ EgalFlottant(ret, PredicteurSaturation_calculer_distance(args.lat2, args.lon2, args.lat1, args.lon1))
    /\ EgalFlottant(CollecteurDonnees_calculer_distance(args.lat1, args.lon1, args.lat2, args.lon2),
                    PredicteurSaturation_calculer_distance(args.lat1, args.lon1, args.lat2, args.lon2))


(***************************************************************************)
(* predire_saturation from the history samples to the label.               *)
(***************************************************************************)
MaxEchantillons == 2

\* The similar samples of a history, in hundredths: none, or up to
\* MaxEchantillons values.
DonneesEssai == UNION { [1..n -> {10, 50, 96, 100}] : n \in 0..MaxEchantillons }

\* The lots tried: in the Olympia zone or out of any zone, with a capacity and a
\* number of free places that give current occupancies below, at and above 0.95,
\* a lot with more free places than capacity and a lot without capacity.
LotsEssai ==
  { Parking("SAEM_ESSAI", "Parking d'essai", lieu, remplissage[1], remplissage[2], 400) :
      lieu \in {"SAEM_003", "SAEM_009"},
      remplissage \in { << 500, 300 >>, << 100, 10 >>, << 100, 6 >>, << 100, 5 >>,
                        << 100, 4 >>, << 100, 150 >>, << 0, 0 >> } }

InitSaturation ==
  /\ pc = "appel"
  /\ \E parking \in LotsEssai, donnees_similaires \in DonneesEssai, meteo \in {20, 18, 21},
        nb_fermees \in 0..1 :
       args = [parking |-> parking, donnees_similaires |-> donnees_similaires,
               meteo |-> meteo,
               stations_proches |->
                 [k \in 1..(nb_fermees + 1) |-> StationEssai(k, k <= nb_fermees)],
               evenements |-> recuperer_evenements_locaux]
  /\ ret = << >>
  /\ HorsCycle

AppelerPredireSaturationHistorique ==
  /\ pc = "appel"
  /\ LET statistiques == StatistiquesHistorique(args.donnees_similaires)
     IN  ret' = predire_saturation(args.parking, statistiques.prediction_base,
                                   statistiques.ecart_type, args.meteo,
                                   args.stations_proches, args.evenements)
  /\ pc' = "valeur"
  /\ UNCHANGED << args, cle_maps, source_travaux, source_metro, parkings_saemes,
                  parkings_paris, travaux, incidents_metro, stations_destination,
                  tous_parkings, i, trajets, recommendations, resultat >>

NextSaturation == AppelerPredireSaturationHistorique

SpecSaturation == InitSaturation /\ [][NextSaturation]_vars

\* 1 - free / capacity for the lot of the call, in 1/Unite.
OccupationCourante ==
  Unite - (args.parking.places_disponibles * Unite) \div args.parking.capacite_totale

\* C17: with current = 1 - free / capacity: when the prediction is above 0.95 and
\* current is below 0.95, the label is a numeric estimate if the fill rate
\* (prediction - current) / 60 is above 0.001, the rate it divides by being then
\* above zero, and "low immediate risk" if not; otherwise the label is "already
\* saturated" when the prediction is 0.99 or more, otherwise "low risk" when it is
\* 0.5 or less, otherwise "N/A".
C17_LibelleDuTempsAvantSaturation ==
  (pc = "valeur" /\ args.parking.capacite_totale # 0) =>
    LET predit == ret.taux_occupation_predit
        libelle == ret.temps_avant_saturation
    IN  IF predit * 100 > 95 * Unite /\ OccupationCourante * 100 < 95 * Unite
          THEN IF (predit - OccupationCourante) * 1000 > 60 * Unite
                 THEN /\ libelle.texte \in {"~min", "~heure(s)"}
                      /\ predit - OccupationCourante > 0
                      /\ libelle.nombre >= 0
                 ELSE libelle = Libelle("Faible risque immediat", 0)
        ELSE IF predit * 100 >= 99 * Unite
          THEN libelle = Libelle("Deja sature ou tres proche", 0)
        ELSE IF predit * 100 <= 50 * Unite
          THEN libelle = Libelle("Tres faible risque", 0)
        ELSE libelle = Libelle("N/A", 0)

\* A prediction of 1 for a lot that is 40% full: an estimate in minutes, although
\* the prediction is above 0.99.
C17_Temoin ==
  /\ pc = "valeur"
  /\ args.parking.capacite_totale = 500
  /\ ret.taux_occupation_predit = Unite
  /\ ret.taux_occupation_actuel = 40 * (Unite \div 100)
  /\ ret.temps_avant_saturation.texte = "~min"
  /\ ret.temps_avant_saturation.nombre < 60

\* C18: the current occupancy reported is 1 - free / capacity, 0.40 for a
\* capacity of 500 with 300 free places; when no history sample matches and no
\* adjustment applies (no weather multiplier, no closed station nearby, no event
\* zone around the lot), the prediction is 0.5 and the reliability 0.8.
C18_DefautsSansHistorique ==
  (pc = "valeur" /\ args.parking.capacite_totale # 0) =>
    /\ ret.taux_occupation_actuel * args.parking.capacite_totale
         = (args.parking.capacite_totale - args.parking.places_disponibles) * Unite
    /\ (args.parking.capacite_totale = 500 /\ args.parking.places_disponibles = 300)
         => ret.taux_occupation_actuel = 40 * (Unite \div 100)
    /\ args.donnees_similaires = << >> => ret.fiabilite_prediction = 80
    /\ ( /\ args.donnees_similaires = << >>
         /\ args.meteo = 20
         /\ NbFermees(args.stations_proches) = 0
         /\ \A k \in 1..Len(args.evenements) :
              DistanceM[args.parking.lieu][args.evenements[k].lieu] > args.evenements[k].rayon )
         => ret.taux_occupation_predit = 50 * (Unite \div 100)

\* The lot of 500 places with 300 free, out of any event zone, without history,
\* weather multiplier or closed station.
C18_Temoin ==
  /\ pc = "valeur"
  /\ args.parking.capacite_totale = 500
  /\ args.parking.places_disponibles = 300
  /\ args.parking.lieu = "SAEM_009"
  /\ args.donnees_similaires = << >>
  /\ args.meteo = 20
  /\ NbFermees(args.stations_proches) = 0
  /\ ret.taux_occupation_actuel = 40 * (Unite \div 100)
  /\ ret.taux_occupation_predit = 50 * (Unite \div 100)
  /\ ret.fiabilite_prediction = 80


(***************************************************************************)
(* _stations_similaires on its own.                                        *)
(***************************************************************************)
\* The station names tried: the stations of the model, a name in capitals, a
\* name with its accent, and three long names of quays.
NomsEssai ==
  { "Palais Royal - Musee du Louvre", "Gare de l'Est", "Republique", "Opera",
    "Chaussee d'Antin - La Fayette", "Le Peletier", "Gare du Nord", "Louis Blanc",
    "Saint-Germain-des-Pres", "Re/publique", "REPUBLIQUE",
    "Gare du Nord - Quai de la ligne 4 vers Porte de Clignancourt",
    "Gare du Nord - Quai de la ligne 4 vers Bagneux",
    "Gare du Nord - Quai de la ligne 5 direction Bobigny" }

InitSimilaires ==
  /\ pc = "appel"
  /\ \E station1 \in NomsEssai, station2 \in NomsEssai :
       args = [station1 |-> station1, station2 |-> station2]
  /\ ret = << >>
  /\ HorsCycle

AppelerStationsSimilaires ==
  /\ pc = "appel"
  /\ ret' = _stations_similaires(args.station1, args.station2)
  /\ pc' = "valeur"
  /\ UNCHANGED << args, cle_maps, source_travaux, source_metro, parkings_saemes,
                  parkings_paris, travaux, incidents_metro, stations_destination,
                  tous_parkings, i, trajets, recommendations, resultat >>

NextSimilaires == AppelerStationsSimilaires

SpecSimilaires == InitSimilaires /\ [][NextSimilaires]_vars

\* The words of a name once case and diacritics are folded.
MotsPlies(nom) ==
  [k \in 1..Len(normaliser(nom)) |->
     IF normaliser(nom)[k] = "re/publique" THEN "republique" ELSE normaliser(nom)[k]]

\* C21: two names are similar whenever they are equal after folding case and
\* diacritics, or one normalized name contains the other, or the shared words
\* are at least 70% of the larger number of words (exactly 70% included).
C21_SimilairesDesSoixanteDixPourCent ==
  pc = "valeur" =>
    LET nom1 == normaliser(args.station1)
        nom2 == normaliser(args.station2)
        mots1 == {nom1[k] : k \in 1..Len(nom1)}
        mots2 == {nom2[k] : k \in 1..Len(nom2)}
    IN  ( \/ MotsPlies(args.station1) = MotsPlies(args.station2)
          \/ Contient(nom2, nom1) \/ Contient(nom1, nom2)
          \/ 100 * Cardinality(mots1 \cap mots2)
               >= 70 * Max(Cardinality(mots1), Cardinality(mots2)) )
          => ret = TRUE


(***************************************************************************)
(* recuperer_travaux_paris: the geometry of the works.  A position is      *)
(* << longitude, latitude >> in 1/100000 of a degree, with an altitude     *)
(* after them when the source gives one.                                   *)
(***************************************************************************)
MaxRecords == 2

\* The geometries a record of the works source may carry: its type and the
\* positions of its coordinates (the position of a Point, the first ring of a
\* Polygon, the positions of a LineString), none when coordinates is empty.
GeometriesEssai ==
  LET a == << 235890, 4887660 >>
      b == << 235990, 4887660 >>
      c == << 235990, 4887760 >>
  IN  { [type |-> "Point", positions |-> << >>],
        [type |-> "Point", positions |-> << a >>],
        [type |-> "Point", positions |-> << << 235890, 4887660, 35 >> >>],
        [type |-> "Polygon", positions |-> << >>],
        [type |-> "Polygon", positions |-> << a >>],
        [type |-> "Polygon", positions |-> << a, b >>],
        [type |-> "Polygon", positions |-> << a, b, c, a >>],
        [type |-> "LineString", positions |-> << a, b >>] }

\* The work with its polygon, as the fallback and the live path build it.
TravauxGeometrie(id, latitude, longitude, geometrie) ==
  [id |-> id, latitude |-> latitude, longitude |-> longitude, geometrie |-> geometrie]

\* The three works of the fallback: two triangles and a work without polygon.
GeometriesFallback ==
  << TravauxGeometrie("TRAV_001", 4886980, 230760,
                      Some(<< << 4886980, 230760 >>, << 4887080, 230860 >>,
                              << 4887180, 230960 >> >>)),
     TravauxGeometrie("TRAV_002", 4885300, 233520, None),
     TravauxGeometrie("TRAV_003", 4885900, 234700,
                      Some(<< << 4885900, 234700 >>, << 4885950, 234800 >>,
                              << 4886000, 234900 >> >>)) >>

\* lines 439-456 for one record: "continue" (the record gives no work), "leve"
\* (longitude, latitude = coords fails on a position that is not a pair) or
\* "travaux" with the work built.
GeometrieDuRecord(k, geometry) ==
  LET Somme[j \in 0..Len(geometry.positions), axe \in 1..2] ==
        IF j = 0 THEN 0 ELSE Somme[j - 1, axe] + geometry.positions[j][axe]
      n == Len(geometry.positions)
  IN  IF geometry.positions = << >> THEN [issue |-> "continue"]
      ELSE IF geometry.type = "Point"
        THEN IF Len(geometry.positions[1]) # 2 THEN [issue |-> "leve"]
             ELSE [issue |-> "travaux",
                   travaux_obj |-> TravauxGeometrie(IdsEssai[k], geometry.positions[1][2],
                                                    geometry.positions[1][1], None)]
      ELSE IF geometry.type = "Polygon"
        THEN [issue |-> "travaux",
              travaux_obj |->
                TravauxGeometrie(IdsEssai[k], Somme[n, 2] \div n, Somme[n, 1] \div n,
                                 Some([j \in 1..n |-> << geometry.positions[j][2],
                                                         geometry.positions[j][1] >>]))]
      ELSE [issue |-> "continue"]

\* recuperer_travaux_paris() with the polygons: the works of the records that
\* give one, the fallback when the request or a record raises.
TravauxAvecGeometrie(erreur, records) ==
  LET issues == [k \in 1..Len(records) |-> GeometrieDuRecord(k, records[k])]
      gardes == SelectSeq(issues, LAMBDA r : r.issue = "travaux")
  IN  IF erreur \/ \E k \in 1..Len(records) : issues[k].issue = "leve"
        THEN GeometriesFallback
        ELSE [k \in 1..Len(gardes) |-> gardes[k].travaux_obj]

InitGeometrie ==
  /\ pc = "appel"
  /\ \E erreur \in BOOLEAN, n \in 0..MaxRecords :
       \E records \in [1..n -> GeometriesEssai] :
         args = [erreur |-> erreur, records |-> records]
  /\ ret = << >>
  /\ HorsCycle

AppelerRecupererTravauxGeometrie ==
  /\ pc = "appel"
  /\ ret' = TravauxAvecGeometrie(args.erreur, args.records)
  /\ pc' = "valeur"
  /\ UNCHANGED << args, cle_maps, source_travaux, source_metro, parkings_saemes,
                  parkings_paris, travaux, incidents_metro, stations_destination,
                  tous_parkings, i, trajets, recommendations, resultat >>

NextGeometrie == AppelerRecupererTravauxGeometrie

SpecGeometrie == InitGeometrie /\ [][NextGeometrie]_vars

\* C22: every work returned, by the live path or by the fallback, that carries a
\* polygon carries one of at least 3 vertices.
C22_PolygoneDeTroisSommets ==
  pc = "valeur" =>
    \A k \in 1..Len(ret) :
      ret[k].geometrie # None => Len(ret[k].geometrie[1]) >= 3


(***************************************************************************)
(* The fetch operations step by step: their requests and what follows a    *)
(* request that fails.  ret holds the locals of the operation: the         *)
(* requests issued so far, each with its outcome, and the list returned.   *)
(***************************************************************************)
\* Faulty variant of what follows a request: a failed request is issued again.
ApresRequeteReessayer(position, ok, suivante) == IF ok THEN suivante ELSE position

\* Where the operation goes after a request: on, or to its except clause.
ApresRequete(position, ok, suivante) == IF ok THEN suivante ELSE "except"

Requete(endpoint, ok) == [endpoint |-> endpoint, ok |-> ok]

InitRequetes ==
  /\ pc = "appel"
  /\ \/ \E n \in 0..MaxFiches, bas \in BOOLEAN, haut \in BOOLEAN :
          \E fiches \in [1..n -> FichesSaemes] :
             args = [operation |-> "recuperer_parkings_saemes", fiches |-> fiches,
                     bas |-> bas, haut |-> haut]
     \/ \E source \in SourcesTravaux \ {"erreur"} :
          args = [operation |-> "recuperer_travaux_paris", source |-> source]
     \/ \E source \in (SourcesMetro \cup {"vide"}) \ {"erreur"} :
          args = [operation |-> "recuperer_incidents_metro", source |-> source]
  /\ ret = [requetes |-> << >>, liste |-> << >>]
  /\ HorsCycle

\* line 250: the request of the SAEMES referential
DemanderReferentiel ==
  /\ pc = "appel"
  /\ args.operation = "recuperer_parkings_saemes"
  /\ \E ok \in BOOLEAN :
       /\ ret' = [ret EXCEPT !.requetes = Append(@, Requete("saemes_referentiel", ok))]
       /\ pc' = ApresRequete("appel", ok, "disponibilite")
  /\ UNCHANGED << args, cle_maps, source_travaux, source_metro, parkings_saemes,
                  parkings_paris, travaux, incidents_metro, stations_destination,
                  tous_parkings, i, trajets, recommendations, resultat >>

\* line 262: the request of the SAEMES real-time places
DemanderDisponibilite ==
  /\ pc = "disponibilite"
  /\ \E ok \in BOOLEAN :
       /\ ret' = [ret EXCEPT !.requetes = Append(@, Requete("saemes_disponibilite", ok))]
       /\ pc' = ApresRequete("disponibilite", ok, "combiner")
  /\ UNCHANGED << args, cle_maps, source_travaux, source_metro, parkings_saemes,
                  parkings_paris, travaux, incidents_metro, stations_destination,
                  tous_parkings, i, trajets, recommendations, resultat >>

\* line 417: the request of the works
DemanderTravaux ==
  /\ pc = "appel"
  /\ args.operation = "recuperer_travaux_paris"
  /\ \E ok \in BOOLEAN :
       /\ ret' = [ret EXCEPT !.requetes = Append(@, Requete("paris_travaux", ok))]
       /\ pc' = ApresRequete("appel", ok, "combiner")
  /\ UNCHANGED << args, cle_maps, source_travaux, source_metro, parkings_saemes,
                  parkings_paris, travaux, incidents_metro, stations_destination,
                  tous_parkings, i, trajets, recommendations, resultat >>

\* line 491: the request of the transit traffic
DemanderTraficMetro ==
  /\ pc = "appel"
  /\ args.operation = "recuperer_incidents_metro"
  /\ \E ok \in BOOLEAN :
       /\ ret' = [ret EXCEPT !.requetes = Append(@, Requete("ratp_trafic", ok))]
       /\ pc' = ApresRequete("appel", ok, "combiner")
  /\ UNCHANGED << args, cle_maps, source_travaux, source_metro, parkings_saemes,
                  parkings_paris, travaux, incidents_metro, stations_destination,
                  tous_parkings, i, trajets, recommendations, resultat >>

\* The answers are turned into the list returned (lines 266-330, 421-472,
\* 495-535), without any request.
CombinerLesReponses ==
  /\ pc = "combiner"
  /\ ret' = [ret EXCEPT !.liste =
               CASE args.operation = "recuperer_parkings_saemes" ->
                      recuperer_parkings_saemes(FALSE, args.fiches, args.bas, args.haut)
                 [] args.operation = "recuperer_travaux_paris" ->
                      recuperer_travaux_paris(args.source)
                 [] args.operation = "recuperer_incidents_metro" ->
                      recuperer_incidents_metro(args.source)]
  /\ pc' = "valeur"
  /\ UNCHANGED << args, cle_maps, source_travaux, source_metro, parkings_saemes,
                  parkings_paris, travaux, incidents_metro, stations_destination,
                  tous_parkings, i, trajets, recommendations, resultat >>

\* The except clause (lines 318-325, 476-479, 539-542): the fallback data,
\* without any request.
RetournerLeFallback ==
  /\ pc = "except"
  /\ ret' = [ret EXCEPT !.liste =
               CASE args.operation = "recuperer_parkings_saemes" ->
                      _generer_parkings_fallback(args.haut)
                 [] args.operation = "recuperer_travaux_paris" ->
                      _generer_travaux_fallback
                 [] args.operation = "recuperer_incidents_metro" ->
                      _generer_incidents_metro_fallback]
  /\ pc' = "valeur"
  /\ UNCHANGED << args, cle_maps, source_travaux, source_metro, parkings_saemes,
                  parkings_paris, travaux, incidents_metro, stations_destination,
                  tous_parkings, i, trajets, recommendations, resultat >>

NextRequetes ==
  \/ DemanderReferentiel
  \/ DemanderDisponibilite
  \/ DemanderTravaux
  \/ DemanderTraficMetro
  \/ CombinerLesReponses
  \/ RetournerLeFallback

SpecRequetes == InitRequetes /\ [][NextRequetes]_vars

\* The fallback data of the operation of the call.
FallbackDeLOperation ==
  CASE args.operation = "recuperer_parkings_saemes" -> _generer_parkings_fallback(args.haut)
    [] args.operation = "recuperer_travaux_paris" -> _generer_travaux_fallback
    [] args.operation = "recuperer_incidents_metro" -> _generer_incidents_metro_fallback

\* C23: within one execution of a fetch operation no endpoint is requested
\* twice; a request that failed is the last request of the execution; and the
\* execution then returns the fallback data of the operation.
C23_UneRequeteParSource ==
  LET requetes == ret.requetes
  IN  /\ \A j, k \in 1..Len(requetes) :
           requetes[j].endpoint = requetes[k].endpoint => j = k
      /\ \A k \in 1..Len(requetes) : ~requetes[k].ok => k = Len(requetes)
      /\ (pc = "valeur" /\ \E k \in 1..Len(requetes) : ~requetes[k].ok)
           => ret.liste = FallbackDeLOperation

\* The referential answered and the real-time request failed: two requests, the
\* fallback lots returned.
C23_Temoin ==
  /\ pc = "valeur"
  /\ ret.requetes = << Requete("saemes_referentiel", TRUE),
                       Requete("saemes_disponibilite", FALSE) >>
  /\ ret.liste = _generer_parkings_fallback(args.haut)


(***************************************************************************)
(* _identifier_travaux_sur_trajet on its own.                              *)
(***************************************************************************)
\* The routes tried: no point, or 3, 6 or 11 points, of which the 1st, the 6th
\* and the 11th are sampled.
RoutesPointsEssai ==
  { << >> } \cup
  { [k \in 1..n |-> IF k = 1 THEN t[1]
                    ELSE IF k = 6 THEN t[2] ELSE IF k = 11 THEN t[3] ELSE t[4]] :
      n \in {3, 6, 11},
      t \in {"ORIG", "PARIS_1", "SAEM_009"} \X {"ORIG", "PARIS_1", "SAEM_009"}
              \X {"ORIG", "PARIS_1", "SAEM_009"} \X {"PARIS_1", "SAEM_009"} }

\* The works recuperer_travaux_paris may return: all of them affect circulation.
ChantiersEnCours == {t \in ChantiersEssai : t.impact_circulation}

InitSurTrajet ==
  /\ pc = "appel"
  /\ \E route_points \in RoutesPointsEssai, n \in 0..MaxTravaux :
       \E liste_travaux \in [1..n -> ChantiersEnCours] :
         args = [route_points |-> route_points, travaux |-> liste_travaux]
  /\ ret = << >>
  /\ HorsCycle

AppelerIdentifierTravauxSurTrajet ==
  /\ pc = "appel"
  /\ ret' = _identifier_travaux_sur_trajet(args.route_points, args.travaux)
  /\ pc' = "valeur"
  /\ UNCHANGED << args, cle_maps, source_travaux, source_metro, parkings_saemes,
                  parkings_paris, travaux, incidents_metro, stations_destination,
                  tous_parkings, i, trajets, recommendations, resultat >>

NextSurTrajet == AppelerIdentifierTravauxSurTrajet

SpecSurTrajet == InitSurTrajet /\ [][NextSurTrajet]_vars

\* The works of the call that have a sampled point of the route (index 0, 5,
\* 10, ... counted from 0) less than 300 m away, by their rank in the list.
RangsSurTrajet ==
  {k \in 1..Len(args.travaux) :
     \E j \in 1..Len(args.route_points) :
        /\ (j - 1) % 5 = 0
        /\ DistanceM[args.route_points[j]][args.travaux[k].lieu] < 300}

MaxLignes == 2

\* A line of the traffic answer: its slug, the key words its message holds
\* ("perturbe", "interrompu" for "interrompu" or "arret", "travaux", "ferme"),
\* the station names the message contains, and the names
\* _extraire_stations_fermees would take from it.
LigneMetro(line, slug, mots, mentions, extraites) ==
  [line |-> line, slug |-> slug, mots |-> mots, mentions |-> mentions,
   extraites |-> extraites]

LignesEssai ==
  { LigneMetro("7", "normal", {}, {"Riquet", "Crimee"}, << "Riquet", "Crimee" >>),
    LigneMetro("5", "alerte", {"ferme"}, {"Stalingrad"}, << "Stalingrad" >>),
    LigneMetro("7", "normal", {"travaux"}, {"Riquet"}, << >>),
    LigneMetro("4", "normal_trav", {}, {}, << "Gare du Nord" >>),
    LigneMetro("1", "normal", {}, {}, << >>) }

\* lines 496-527: the incident of a line; the station names are taken from the
\* message only when the impact level is not "normal".
IncidentDeLaLigne(metro_line) ==
  LET impact_niveau ==
        IF metro_line.slug \in {"alerte", "critical"} \/ "perturbe" \in metro_line.mots
          THEN "perturbe"
        ELSE IF "interrompu" \in metro_line.mots THEN "interrompu"
        ELSE IF metro_line.slug = "normal_trav" \/ "travaux" \in metro_line.mots
          THEN "travaux"
        ELSE IF "ferme" \in metro_line.mots THEN "perturbe"
        ELSE "normal"
  IN  IncidentMetro(metro_line.line, metro_line.slug, "Trafic", metro_line.mentions,
                    impact_niveau,
                    IF impact_niveau = "normal" THEN << >> ELSE metro_line.extraites)

\* recuperer_incidents_metro(): the incidents of the lines answered, the fallback
\* when the request fails.
IncidentsDuTrafic(erreur, metros) ==
  IF erreur THEN _generer_incidents_metro_fallback
  ELSE [k \in 1..Len(metros) |-> IncidentDeLaLigne(metros[k])]

StationsEssai ==
  { "Riquet", "Crimee", "Stalingrad", "Gare du Nord", "Republique",
    "Saint-Germain-des-Pres" }

InitFermeture ==
  /\ pc = "appel"
  /\ \E nom_station \in StationsEssai, erreur \in BOOLEAN, n \in 0..MaxLignes :
       \E metros \in [1..n -> LignesEssai] :
         args = [nom_station |-> nom_station, erreur |-> erreur, metros |-> metros]
  /\ ret = << >>
  /\ HorsCycle

AppelerVerifierFermetureStation ==
  /\ pc = "appel"
  /\ ret' = _verifier_fermeture_station(args.nom_station,
                                        IncidentsDuTrafic(args.erreur, args.metros))
  /\ pc' = "valeur"
  /\ UNCHANGED << args, cle_maps, source_travaux, source_metro, parkings_saemes,
                  parkings_paris, travaux, incidents_metro, stations_destination,
                  tous_parkings, i, trajets, recommendations, resultat >>

NextFermeture == AppelerVerifierFermetureStation

SpecFermeture == InitFermeture /\ [][NextFermeture]_vars

\* C25: a station is reported closed only if some incident of the list fetched
\* whose impact level is not "normal" lists a similar station name or names the
\* station in its message.
C25_JamaisFermeeSurIncidentNormal ==
  (pc = "valeur" /\ ret.fermee) =>
    LET incidents == IncidentsDuTrafic(args.erreur, args.metros)
    IN  \E k \in 1..Len(incidents) :
          /\ incidents[k].impact_niveau # "normal"
          /\ \/ \E j \in 1..Len(incidents[k].stations_fermees) :
                  _stations_similaires(args.nom_station, incidents[k].stations_fermees[j])
             \/ args.nom_station \in incidents[k].mentions

\* Two lines answered: the first, of normal level, names other stations in its
\* message; the second, in alert, closes Stalingrad, which is reported closed.
C25_Temoin ==
  /\ pc = "valeur"
  /\ ~args.erreur
  /\ args.nom_station = "Stalingrad"
  /\ Len(args.metros) = 2
  /\ args.metros[1].slug = "normal" /\ args.metros[1].mentions # {}
  /\ args.metros[2].slug = "alerte"
  /\ ret.fermee


\* C26: a numeric time to saturation is a number of minutes of at least 0 and
\* less than 60, in the minutes form; the hours form is never produced.
C26_ToujoursEnMinutes ==
  (pc = "valeur" /\ args.parking.capacite_totale # 0) =>
    /\ ret.temps_avant_saturation.texte # "~heure(s)"
    /\ ret.temps_avant_saturation.texte = "~min" =>
         /\ ret.temps_avant_saturation.nombre >= 0
         /\ ret.temps_avant_saturation.nombre < 60

\* A lot that holds more free places than capacity and a prediction of 1: the
\* estimate is close to the hour, in minutes.
C26_Temoin ==
  /\ pc = "valeur"
  /\ args.parking.capacite_totale = 100
  /\ args.parking.places_disponibles = 150
  /\ ret.taux_occupation_predit = Unite
  /\ ret.temps_avant_saturation.texte = "~min"
  /\ ret.temps_avant_saturation.nombre >= 55


\* C27: in a cycle run without a routing key every leg has no route points, no
\* candidate has works on its route, and each candidate's score is the score of
\* its own figures with no works, whatever works are in progress.
C27_SansCleAucunTravauxSurTrajet ==
  ~cle_maps =>
    /\ \A k \in 1..Len(trajets) :
          /\ trajets[k].acces # None => trajets[k].acces[1].route_points = << >>
          /\ trajets[k].marche # None => trajets[k].marche[1].route_points = << >>
    /\ \A k \in 1..Len(recommendations) :
          LET reco == recommendations[k]
          IN  /\ reco.route_to_parking_points = << >>
              /\ reco.route_parking_to_dest_points = << >>
              /\ reco.travaux_impactants = << >>
              /\ reco.score =
                   calculer_score_parking(
                     Centiemes(reco.prediction_saturation.taux_occupation_predit),
                     reco.temps_acces, reco.temps_marche_destination,
                     reco.parking.tarif_horaire, 0, reco.impact_metro,
                     reco.parking.distance_destination)
    /\ pc = "retour" =>
          /\ resultat.travaux_sur_trajet = << >>
          /\ \A k \in 1..Len(resultat.alternatives) :
                resultat.alternatives[k].nb_travaux_impactants = 0

\* A cycle without a key has ended on a recommendation while works that affect
\* circulation lie less than 300 m from the recommended lot.
C27_Temoin ==
  /\ ~cle_maps
  /\ pc = "retour"
  /\ resultat.parking_recommande # None
  /\ \E k \in 1..Len(travaux) :
        /\ travaux[k].impact_circulation
        /\ _calculer_distance(recommendations[1].parking.lieu, travaux[k].lieu) < 300


(***************************************************************************)
(* PredicteurSaturation.generer_historique_simule and the samples that     *)
(* predire_saturation selects.  A date is a day number, whose remainder by *)
(* 7 is the weekday (0 is Monday), with an hour and a minute.              *)
(***************************************************************************)
\* line 950: the number of days of the generated history
nb_jours == 30

Date(jour, heure, minute) == [jour |-> jour, heure |-> heure, minute |-> minute]

\* datetime.weekday()
weekday(date) == date.jour % 7

\* date + timedelta(minutes = n)
PlusMinutes(date, n) ==
  LET minutes == date.heure * 60 + date.minute + n
  IN  Date(date.jour + minutes \div 1440, (minutes % 1440) \div 60, minutes % 60)

\* The draws of one history: every random.uniform gives its lowest value, or
\* every one its highest.
TiragesHistorique == {"bas", "haut"}

\* lines 921-934 and 939: the rate of a sample, in hundredths
TauxOccupation(heure, date, tirage) ==
  LET bas == tirage = "bas"
      pattern ==
        IF 8 <= heure /\ heure <= 10 THEN IF bas THEN 70 ELSE 95
        ELSE IF 17 <= heure /\ heure <= 19 THEN IF bas THEN 80 ELSE 98
        ELSE IF 12 <= heure /\ heure <= 14 THEN IF bas THEN 60 ELSE 85
        ELSE IF 22 <= heure \/ heure <= 6 THEN IF bas THEN 10 ELSE 30
        ELSE IF bas THEN 40 ELSE 70
      base_taux == IF weekday(date) >= 5 THEN (pattern * 7) \div 10 ELSE pattern
  IN  Min(base_taux + (IF bas THEN -10 ELSE 10), 100)

\* Faulty variant of the history: six days only.
HistoriqueDeSixJours(maintenant, minuit, tirage) ==
  [k \in 1..(6 * 24) |->
     LET jour == (k - 1) \div 24
         heure == (k - 1) % 24
         date == Date(maintenant.jour - jour + (IF jour >= minuit THEN 1 ELSE 0),
                      maintenant.heure, maintenant.minute)
     IN  [taux_occupation |-> TauxOccupation(heure, date, tirage),
          jour_semaine |-> weekday(date),
          heure |-> heure]]

\* The history of nb_jours days of 24 samples.  The clock is read once a day of
\* the history: it passes midnight after minuit readings (never, when minuit is
\* nb_jours), and the days read after that are counted from the next day.
generer_historique_simule(maintenant, minuit, tirage) ==
  [k \in 1..(nb_jours * 24) |->
     LET jour == (k - 1) \div 24
         heure == (k - 1) % 24
         date == Date(maintenant.jour - jour + (IF jour >= minuit THEN 1 ELSE 0),
                      maintenant.heure, maintenant.minute)
     IN  [taux_occupation |-> TauxOccupation(heure, date, tirage),
          jour_semaine |-> weekday(date),
          heure |-> heure]]

\* lines 953-960: the rates of the samples of the target weekday, at most one
\* hour from the target hour
DonneesSimilaires(historique, heure_cible) ==
  LET jour_cible == weekday(heure_cible)
      heure_cible_int == heure_cible.heure
      Ecart(a, b) == IF a >= b THEN a - b ELSE b - a
      similaires ==
        SelectSeq(historique,
                  LAMBDA h : /\ h.jour_semaine = jour_cible
                             /\ Ecart(h.heure, heure_cible_int) <= 1)
  IN  [k \in 1..Len(similaires) |-> similaires[k].taux_occupation]

\* The days the clock is tried at, one for each weekday.
JoursEssai == 35..41

\* The readings after which the clock passes midnight.
PassagesMinuit == {1, 29, nb_jours}

InitHistorique ==
  /\ pc = "appel"
  /\ \E jour \in JoursEssai, jour_cible \in JoursEssai, heure \in 0..23,
        minuit \in PassagesMinuit, tirage \in TiragesHistorique :
       args = [maintenant |-> Date(jour, 23, 59),
               heure_cible |-> Date(jour_cible, heure, 0),
               minuit |-> minuit,
               tirage |-> tirage]
  /\ ret = << >>
  /\ HorsCycle

\* lines 950-968
AppelerPredireSaturationCible ==
  /\ pc = "appel"
  /\ LET historique == generer_historique_simule(args.maintenant, args.minuit, args.tirage)
         donnees_similaires == DonneesSimilaires(historique, args.heure_cible)
     IN  ret' = [donnees_similaires |-> donnees_similaires,
                 statistiques |-> StatistiquesHistorique(donnees_similaires)]
  /\ pc' = "valeur"
  /\ UNCHANGED << args, cle_maps, source_travaux, source_metro, parkings_saemes,
                  parkings_paris, travaux, incidents_metro, stations_destination,
                  tous_parkings, i, trajets, recommendations, resultat >>

NextHistorique == AppelerPredireSaturationCible

SpecHistorique == InitHistorique /\ [][NextHistorique]_vars

\* The sum of a sequence of numbers.
SommeDe(s) ==
  LET Somme[k \in 0..Len(s)] == IF k = 0 THEN 0 ELSE Somme[k - 1] + s[k]
  IN  Somme[Len(s)]

\* C29: whatever the target time, the samples selected by predire_saturation are
\* not empty: the base prediction is their mean and never the default.
C29_EchantillonsJamaisVides ==
  pc = "valeur" =>
    /\ ret.donnees_similaires # << >>
    /\ ret.statistiques.prediction_base =
         SommeDe(ret.donnees_similaires) \div Len(ret.donnees_similaires)

\* A target at hour 0, where the window holds the hours 0 and 1 only, on the
\* weekday that the history holds four times.
C29_Temoin ==
  /\ pc = "valeur"
  /\ args.heure_cible.heure = 0
  /\ Len(ret.donnees_similaires) = 8
  /\ ret.statistiques.prediction_base # 50


(***************************************************************************)
(* recommander_parking, lines 1292-1296: the time the saturation of a lot  *)
(* is predicted for.                                                       *)
(***************************************************************************)
\* Faulty variant of the prediction time: the requested arrival time.
HeureSouhaiteeAuParking(maintenant, temps_jusqu_parking, heure_arrivee_souhaitee) ==
  heure_arrivee_souhaitee

\* line 1295: the clock plus the driving time.  heure_arrivee_souhaitee, the third
\* parameter of recommander_parking (line 1232), is read nowhere in its body.
heure_arrivee_parking(maintenant, temps_jusqu_parking, heure_arrivee_souhaitee) ==
  PlusMinutes(maintenant, temps_jusqu_parking)

\* lines 1295-1296 with lines 950-968: the prediction time of a lot and the
\* statistics of the samples selected for it
PredictionAuParking(maintenant, temps_jusqu_parking, heure_arrivee_souhaitee, minuit, tirage) ==
  LET heure_cible ==
        heure_arrivee_parking(maintenant, temps_jusqu_parking, heure_arrivee_souhaitee)
      donnees_similaires ==
        DonneesSimilaires(generer_historique_simule(maintenant, minuit, tirage), heure_cible)
  IN  [heure_arrivee_parking |-> heure_cible,
       donnees_similaires |-> donnees_similaires,
       statistiques |-> StatistiquesHistorique(donnees_similaires)]

\* The requested arrival times tried: a Tuesday and a Sunday, morning and evening.
HeuresSouhaitees == {Date(jour, heure, 0) : jour \in {36, 41}, heure \in {9, 18}}

InitArrivee ==
  /\ pc = "appel"
  /\ \E jour \in {35, 40}, heure \in {8, 23}, temps_jusqu_parking \in {6, 45},
        heure_arrivee_souhaitee \in HeuresSouhaitees, minuit \in PassagesMinuit,
        tirage \in TiragesHistorique :
       args = [maintenant |-> Date(jour, heure, 30),
               temps_jusqu_parking |-> temps_jusqu_parking,
               heure_arrivee_souhaitee |-> heure_arrivee_souhaitee,
               minuit |-> minuit,
               tirage |-> tirage]
  /\ ret = << >>
  /\ HorsCycle

AppelerPredireAuParking ==
  /\ pc = "appel"
  /\ ret' = PredictionAuParking(args.maintenant, args.temps_jusqu_parking,
                                args.heure_arrivee_souhaitee, args.minuit, args.tirage)
  /\ pc' = "valeur"
  /\ UNCHANGED << args, cle_maps, source_travaux, source_metro, parkings_saemes,
                  parkings_paris, travaux, incidents_metro, stations_destination,
                  tous_parkings, i, trajets, recommendations, resultat >>

NextArrivee == AppelerPredireAuParking

SpecArrivee == InitArrivee /\ [][NextArrivee]_vars

ScoreAvecSaturation(s) ==
  calculer_score_parking(s, args.temps_acces, args.temps_marche, args.tarif,
                         args.nb_travaux, args.impact_metro, args.distance_destination)

\* C30: with the times, the tariff, the works, the distance and the transit
\* penalty of a call held fixed, the score does not decrease when the saturation
\* grows from 0 to 1, the threshold 0.8 included.
C30_ScoreCroissantEnSaturation ==
  pc = "valeur" =>
    /\ \A s \in 0..100 :
          /\ s <= args.taux_saturation => ScoreAvecSaturation(s) <= ret
          /\ s >= args.taux_saturation => ScoreAvecSaturation(s) >= ret
    /\ \A s \in 0..99 : ScoreAvecSaturation(s) <= ScoreAvecSaturation(s + 1)

\* A call at a saturation of exactly 0.8: one hundredth above, the bonus of 4
\* points is lost and the score is 5.61 points higher.
C30_Temoin ==
  /\ pc = "valeur"
  /\ args.taux_saturation = 80
  /\ ScoreAvecSaturation(81) - ret = 561
  /\ ret - ScoreAvecSaturation(79) = 179

====
